---- MODULE Spec2Model ----
(***************************************************************************)
(* Model of the auto-analysis core of plant-intel-mvp (ml-service):        *)
(*   utils/insight_prioritizer.py            InsightPrioritizer            *)
(*   orchestrators/auto_analysis_orchestrator.py  AutoAnalysisOrchestrator *)
(*   analytics/baseline_tracker.py           BaselineTracker               *)
(*                                                                         *)
(* Units.  Python floats are modelled by scaled integers:                  *)
(*   money              whole dollars                                      *)
(*   scores             hundredths of a point (100.00 points = 10000)      *)
(*   probabilities, rates, confidence   hundredths (0.75 = 75)             *)
(*   weights            tenths (0.4 = 4)                                   *)
(* A Python dict is a TLA+ record; a key that may be absent is tested with *)
(* DOMAIN, as the code tests it with `in` / .get(key, default).            *)
(***************************************************************************)
EXTENDS Integers, Sequences, FiniteSets, TLC

VARIABLES
    \* ---- InsightPrioritizer._score_insight applied to one insight
    insight,            \* the insight dict handed to _score_insight
    scored,             \* <<>> or <<ScoredInsight>>: what _score_insight returned
    \* ---- one run of AutoAnalysisOrchestrator.analyze
    csv_headers,        \* the csv_headers argument of analyze: a list of headers, or None
    pc,                 \* position of the run inside analyze
    failed_reads,       \* the steps of the run whose work_orders query failed
    tier,               \* DataTier.tier from detect_tier, 0 before step 1
    baseline_updates,   \* analyze's local baseline_updates
    analyzer_results,   \* _run_analyzers' results dict
    prioritized,        \* prioritize_insights' return value
    investigations,     \* _create_investigations' return value
    feed,               \* format_prioritized_feed's return value
    result,             \* analyze's return value
    trace,              \* the steps of the run, in the order they completed
    faults,             \* the steps of the run in which an exception was raised
    \* ---- BaselineTracker
    work_orders,        \* rows of the work_orders table (the 30-day window)
    facility_baselines, \* rows of the facility_baselines table, by natural key
    upsert_log,         \* every upsert attempted by the last update_baselines
    updates,            \* <<>> or <<return value of update_baselines>>
    clock,              \* "now", in refreshes since the start
    \* ---- overlapping update_baselines runs on one store
    runs,               \* per run: where it is, the rows it read, the upserts it has left
    \* ---- one call of a detector function
    call,               \* the function called and its arguments
    outcome             \* <<>> or <<what the call returned>>

vars == <<insight, scored, pc, failed_reads, tier, baseline_updates,
          analyzer_results, prioritized, investigations, feed, result,
          trace, faults, work_orders, facility_baselines, upsert_log, updates, clock,
          csv_headers, runs, call, outcome>>

scoreVars == <<insight, scored>>
runVars == <<csv_headers, pc, failed_reads, tier, baseline_updates, analyzer_results,
             prioritized, investigations, feed, result, trace, faults>>
baselineVars == <<work_orders, facility_baselines, upsert_log, updates, clock>>
concVars == <<runs>>
detectVars == <<call, outcome>>

-----------------------------------------------------------------------------
(* Generic helpers                                                         *)

\* dict.get(k, default)
Get(d, k, default) == IF k \in DOMAIN d THEN d[k] ELSE default

Min(a, b) == IF a <= b THEN a ELSE b
Max(a, b) == IF a >= b THEN a ELSE b
Abs(x) == IF x < 0 THEN -x ELSE x

RECURSIVE SumSeq(_)
SumSeq(s) == IF s = <<>> THEN 0 ELSE Head(s) + SumSeq(Tail(s))

\* round(x / 10) as Python rounds (half to even); x and the result are integers
RoundDiv10(x) ==
    LET q == x \div 10
        r == x % 10
    IN  IF r > 5 \/ (r = 5 /\ q % 2 = 1) THEN q + 1 ELSE q

\* list slice s[from:to] with Python's clipping; indices are 0-based
Slice(s, from, to) ==
    LET lo == Min(from, Len(s))
        hi == Min(to, Len(s))
    IN  IF hi <= lo THEN <<>> ELSE SubSeq(s, lo + 1, hi)

-----------------------------------------------------------------------------
(* InsightPrioritizer: constants                                           *)

FINANCIAL_WEIGHT == 4
DEVIATION_WEIGHT == 3
URGENCY_WEIGHT == 2
CONFIDENCE_WEIGHT == 1

URGENT_COUNT == 5
NOTABLE_COUNT == 10

\* the confidence _score_insight assumes when the data carries none (0.7)
DefaultConfidence == 70

\* full scale of a score, 100.00 points
ScoreMax == 10000

-----------------------------------------------------------------------------
(* InsightPrioritizer: scoring                                             *)

\* risk_map of _calculate_deviation_score, with its .get default
DeviationRiskMap(level) ==
    CASE level = "critical" -> 10000
      [] level = "high"     -> 7500
      [] level = "medium"   -> 5000
      [] level = "low"      -> 2500
      [] OTHER              -> 5000

\* risk_map of _calculate_urgency_score, with its .get default
UrgencyRiskMap(level) ==
    CASE level = "critical" -> 9500
      [] level = "high"     -> 7500
      [] level = "medium"   -> 5000
      [] level = "low"      -> 2500
      [] OTHER              -> 5000

\* min(100, (financial_impact / 1000) * 10)
FinancialScoreWrapped(financial_impact) == financial_impact % (ScoreMax + 1)
financial_score_of(financial_impact) == Min(ScoreMax, financial_impact)

calculate_deviation_score(ins) ==
    IF "failure_risk" \in DOMAIN ins THEN ins.failure_risk * 100
    ELSE IF "risk_level" \in DOMAIN ins.data THEN DeviationRiskMap(ins.data.risk_level)
    ELSE IF "order_count" \in DOMAIN ins.data THEN Min(ScoreMax, ins.data.order_count * 1000)
    ELSE 5000

calculate_urgency_score(ins) ==
    LET data == ins.data
        insight_type == ins.insight_type
    IN  IF insight_type = "equipment_failure_risk" THEN Get(ins, "failure_risk", 0) * 100
        ELSE IF insight_type = "quality_issue" THEN Min(ScoreMax, Get(data, "scrap_rate", 0) * 200)
        ELSE IF insight_type = "pattern" THEN Min(ScoreMax, Get(data, "order_count", 0) * 800)
        ELSE IF insight_type = "prediction" THEN UrgencyRiskMap(Get(data, "risk_level", "medium"))
        ELSE IF insight_type = "efficiency_opportunity" THEN 4000
        ELSE 5000

score_insight(ins) ==
    LET data == ins.data
        financial_impact == ins.financial_impact
        financial_score == financial_score_of(financial_impact)
        deviation_score == calculate_deviation_score(ins)
        urgency_score == calculate_urgency_score(ins)
        confidence_score == Get(data, "confidence", DefaultConfidence) * 100
        priority_score == RoundDiv10(financial_score * FINANCIAL_WEIGHT
                                     + deviation_score * DEVIATION_WEIGHT
                                     + urgency_score * URGENCY_WEIGHT
                                     + confidence_score * CONFIDENCE_WEIGHT)
    IN  [source_analyzer  |-> ins.source_analyzer,
         insight_type     |-> ins.insight_type,
         insight_data     |-> data,
         priority_score   |-> priority_score,
         priority_level   |-> "background",
         financial_impact |-> financial_impact,
         deviation_score  |-> deviation_score,
         urgency_score    |-> urgency_score,
         confidence_score |-> confidence_score]

-----------------------------------------------------------------------------
(* InsightPrioritizer: extraction of insights from analyzer results        *)

\* the insight dict _extract_cost_insights builds for one pattern
cost_pattern_insight(pattern) ==
    LET identifier == Get(pattern, "identifier", "Unknown")
    IN  [source_analyzer  |-> "cost_analyzer",
         insight_type     |-> "pattern",
         data             |-> [k \in DOMAIN pattern \cup {"identifier"} |->
                                  IF k = "identifier" THEN identifier ELSE pattern[k]],
         financial_impact |-> Abs(Get(pattern, "total_impact", 0)),
         identifier       |-> identifier]

\* the insight dict _extract_cost_insights builds for one prediction
cost_prediction_insight(prediction) ==
    LET wo_number == Get(prediction, "work_order_number", "Unknown")
    IN  [source_analyzer  |-> "cost_analyzer",
         insight_type     |-> "prediction",
         data             |-> [k \in DOMAIN prediction \cup {"identifier"} |->
                                  IF k = "identifier" THEN wo_number ELSE prediction[k]],
         financial_impact |-> Abs(Get(prediction, "predicted_variance", 0)),
         identifier       |-> wo_number]

\* the insight dict _extract_equipment_insights builds for one equipment insight
equipment_insight(ins) ==
    LET equipment_id == Get(ins, "equipment_id", "Unknown")
    IN  [source_analyzer  |-> "equipment_predictor",
         insight_type     |-> "equipment_failure_risk",
         data             |-> [k \in DOMAIN ins \cup {"identifier"} |->
                                  IF k = "identifier" THEN equipment_id ELSE ins[k]],
         financial_impact |-> Get(ins, "estimated_downtime_cost", 0),
         identifier       |-> equipment_id,
         failure_risk     |-> Get(ins, "failure_probability", 0)]

\* the insight dict _extract_quality_insights builds for one issue
quality_insight(issue) ==
    LET material_code == Get(issue, "material_code", "Unknown")
    IN  [source_analyzer  |-> "quality_analyzer",
         insight_type     |-> "quality_issue",
         data             |-> [k \in DOMAIN issue \cup {"identifier"} |->
                                  IF k = "identifier" THEN material_code ELSE issue[k]],
         financial_impact |-> Get(issue, "estimated_cost_impact", 0),
         identifier       |-> material_code]

\* the insight dict _extract_efficiency_insights builds for one opportunity
efficiency_insight(opportunity) ==
    [source_analyzer  |-> "efficiency_analyzer",
     insight_type     |-> "efficiency_opportunity",
     data             |-> opportunity,
     financial_impact |-> Get(opportunity, "potential_savings", 0),
     identifier       |-> Get(opportunity, "area", "Unknown")]

-----------------------------------------------------------------------------
(* Findings the four analyzers emit, as inputs of the scorer               *)

\* signed dollar amounts: total_impact of a pattern, predicted_variance
ImpactValues == {-4500, 0, 1200, 4500, 12000}

\* cost_analyzer patterns (predict_cost_variance, pattern_dict / supplier pattern)
ScorePatterns ==
    {[type |-> t, identifier |-> "MAT-A", order_count |-> oc, total_impact |-> ti] :
        t \in {"material", "supplier"}, oc \in {3, 8, 13}, ti \in ImpactValues}

\* cost_analyzer predictions; confidence is min(92, ...)/100, risk_level one of three
ScorePredictions ==
    {[work_order_number |-> "WO-001", predicted_variance |-> v, confidence |-> c,
      risk_level |-> r] :
        v \in ImpactValues, c \in {72, 92}, r \in {"critical", "high", "medium"}}

\* equipment_predictor insights: failure_probability is its risk_score, which
\* _calculate_equipment_breakdown computes as min(95, 40 + risk_factors), a
\* percentage (40 .. 95, here 4000 .. 9500 hundredths); 75 hundredths is the
\* 0.75 of the prioritizer's own example
ScoreEquipment ==
    {[equipment_id |-> "MILL-01", failure_probability |-> p, estimated_downtime_cost |-> c] :
        p \in {0, 75, 4000, 9500}, c \in {600, 15000}}

\* quality_analyzer insights, with and without a scrap_rate
ScoreQuality ==
    {[material_code |-> "MAT-A", estimated_cost_impact |-> c] : c \in {600, 15000}}
    \cup {[material_code |-> "MAT-A", estimated_cost_impact |-> c, scrap_rate |-> r] :
            c \in {600, 15000}, r \in {5, 60}}

\* efficiency_analyzer opportunities
ScoreEfficiency ==
    {[area |-> "labor", potential_savings |-> s] : s \in {0, 2500, 20000}}

ScoreInputs ==
    {cost_pattern_insight(p) : p \in ScorePatterns}
    \cup {cost_prediction_insight(p) : p \in ScorePredictions}
    \cup {equipment_insight(e) : e \in ScoreEquipment}
    \cup {quality_insight(q) : q \in ScoreQuality}
    \cup {efficiency_insight(o) : o \in ScoreEfficiency}

\* an insight with no content, the value of `insight` outside SpecScore
NoInsight == [source_analyzer |-> "none", insight_type |-> "none", data |-> [identifier |-> "none"],
              financial_impact |-> 0, identifier |-> "none"]

\* financial impacts a second insight, equal in everything else, may carry
FinancialImpacts == {0, 600, 1200, 4500, 9999, 10000, 12000, 15000, 20000}

-----------------------------------------------------------------------------
(* BaselineTracker                                                         *)
(* A work_orders row is a record; select('*') returns every column, and a  *)
(* null column is modelled as a key missing from the record.  Costs, hours *)
(* and unit counts are whole numbers; averages, deviations and scrap rates *)
(* are in hundredths.                                                      *)

\* timedelta(days=30) of update_baselines
WINDOW_DAYS == 30

\* the empty dict {}
EmptyMap == <<>>

\* Python truthiness of wo.get(k) for a text column and for a numeric column
TruthyStr(wo, k) == k \in DOMAIN wo /\ wo[k] # ""
TruthyNum(wo, k) == k \in DOMAIN wo /\ wo[k] # 0

\* a / b rounded to the nearest integer, halves to even (round(x, 2) on hundredths)
RoundDiv(a, b) ==
    LET q == a \div b
        r == a % b
    IN  IF 2 * r > b \/ (2 * r = b /\ q % 2 = 1) THEN q + 1 ELSE q

\* the integer nearest to sqrt(v) / n, for v >= 0 and n > 0
RECURSIVE SqrtDivSearch(_, _, _, _)
SqrtDivSearch(v, n, lo, hi) ==
    \* invariant: the answer r satisfies lo <= r <= hi
    IF lo = hi THEN lo
    ELSE LET mid == (lo + hi) \div 2
         IN  IF (2 * mid + 1) * (2 * mid + 1) * n * n > 4 * v
             THEN SqrtDivSearch(v, n, lo, mid)
             ELSE SqrtDivSearch(v, n, mid + 1, hi)

RECURSIVE SqrtDivUpper(_, _, _)
SqrtDivUpper(v, n, hi) ==
    IF (2 * hi + 1) * (2 * hi + 1) * n * n > 4 * v THEN hi ELSE SqrtDivUpper(v, n, 2 * hi)

NearestSqrtDiv(v, n) == SqrtDivSearch(v, n, 0, SqrtDivUpper(v, n, 1))

RECURSIVE SumSquares(_)
SumSquares(s) == IF s = <<>> THEN 0 ELSE Head(s) * Head(s) + SumSquares(Tail(s))

\* _calculate_std: population standard deviation, 0.0 for fewer than 2 values;
\* values and result in hundredths, the result rounded as _upsert_baseline rounds it
calculate_std(values) ==
    IF Len(values) < 2 THEN 0
    ELSE LET n == Len(values)
             v == n * SumSquares(values) - SumSeq(values) * SumSeq(values)
         IN  NearestSqrtDiv(v, n)

\* sum(values) / len(values), rounded as _upsert_baseline rounds it
calculate_avg(values) == RoundDiv(SumSeq(values), Len(values))

\* the rows the query of update_baselines returns for a facility
WindowRows(rows, facility_id) ==
    SelectSeq(rows, LAMBDA wo : wo.facility_id = facility_id /\ wo.age_days <= WINDOW_DAYS)

\* the (key, value) pairs a _calculate_*_baselines loop appends, in row order
GroupEntries(rows, Valid(_), KeyOf(_), ValueOf(_)) ==
    LET all == [i \in 1..Len(rows) |->
                  IF Valid(rows[i])
                  THEN [valid |-> TRUE, key |-> KeyOf(rows[i]), value |-> ValueOf(rows[i])]
                  ELSE [valid |-> FALSE, key |-> "", value |-> 0]]
    IN  SelectSeq(all, LAMBDA e : e.valid)

\* keys of a dict filled by `if k not in d: d[k] = []`, in insertion order
RECURSIVE GroupKeys(_)
GroupKeys(entries) ==
    IF entries = <<>> THEN <<>>
    ELSE LET rest == GroupKeys(SubSeq(entries, 1, Len(entries) - 1))
             e == entries[Len(entries)]
         IN  IF \A i \in 1..Len(rest) : rest[i] # e.key THEN Append(rest, e.key) ELSE rest

\* the list a group's key maps to
RECURSIVE GroupValues(_, _)
GroupValues(entries, key) ==
    IF entries = <<>> THEN <<>>
    ELSE LET rest == GroupValues(Tail(entries), key)
         IN  IF Head(entries).key = key THEN <<Head(entries).value>> \o rest ELSE rest

\* the upserts one _calculate_*_baselines issues, in order
GroupUpserts(rows, facility_id, metric_type, Valid(_), KeyOf(_), ValueOf(_)) ==
    LET entries == GroupEntries(rows, Valid, KeyOf, ValueOf)
        keys == GroupKeys(entries)
    IN  [i \in 1..Len(keys) |->
            LET values == GroupValues(entries, keys[i])
            IN  [facility_id  |-> facility_id,
                 metric_type  |-> metric_type,
                 identifier   |-> keys[i],
                 rolling_avg  |-> calculate_avg(values),
                 rolling_std  |-> calculate_std(values),
                 sample_count |-> Len(values)]]

\* _calculate_material_baselines
MaterialValid(wo) == TruthyStr(wo, "material_code") /\ TruthyNum(wo, "actual_material_cost")
MaterialKey(wo) == wo.material_code
MaterialValue(wo) == wo.actual_material_cost * 100
material_upserts(rows, facility_id) ==
    GroupUpserts(rows, facility_id, "material_cost", MaterialValid, MaterialKey, MaterialValue)

\* _calculate_labor_baselines
LaborValid(wo) == TruthyNum(wo, "actual_labor_hours")
LaborKey(wo) == IF TruthyStr(wo, "operation_type") THEN wo.operation_type ELSE "general"
LaborValue(wo) == wo.actual_labor_hours * 100
labor_upserts(rows, facility_id) ==
    GroupUpserts(rows, facility_id, "labor_hours", LaborValid, LaborKey, LaborValue)

\* _calculate_scrap_baselines
UnitsProduced(wo) ==
    IF TruthyNum(wo, "units_produced") THEN wo.units_produced ELSE Get(wo, "actual_quantity", 0)
ScrapValid(wo) == TruthyStr(wo, "material_code") /\ UnitsProduced(wo) > 0
ScrapKey(wo) == wo.material_code
\* (units_scrapped / units_produced) * 100, in hundredths (exact for the rows used)
ScrapValue(wo) == (Get(wo, "units_scrapped", 0) * 10000) \div UnitsProduced(wo)
\* float(units_scrapped) raises TypeError on a null units_scrapped
ScrapRaises(rows) ==
    \E i \in 1..Len(rows) : ScrapValid(rows[i]) /\ "units_scrapped" \notin DOMAIN rows[i]
scrap_upserts(rows, facility_id) ==
    GroupUpserts(rows, facility_id, "scrap_rate", ScrapValid, ScrapKey, ScrapValue)

\* _calculate_equipment_baselines
HasEquipment(wo) == TruthyStr(wo, "equipment_id") \/ TruthyStr(wo, "machine_id")
EquipmentValid(wo) == HasEquipment(wo) /\ TruthyNum(wo, "actual_labor_hours")
EquipmentKey(wo) == IF TruthyStr(wo, "equipment_id") THEN wo.equipment_id ELSE wo.machine_id
EquipmentValue(wo) == wo.actual_labor_hours * 100
equipment_upserts(rows, facility_id) ==
    GroupUpserts(rows, facility_id, "equipment_cycle_time", EquipmentValid, EquipmentKey,
                 EquipmentValue)

\* every upsert update_baselines attempts, in order, for the rows it read
baseline_upserts(rows, facility_id) ==
    IF rows = <<>> THEN <<>>
    ELSE IF ScrapRaises(rows)
    THEN material_upserts(rows, facility_id) \o labor_upserts(rows, facility_id)
    ELSE material_upserts(rows, facility_id) \o labor_upserts(rows, facility_id)
         \o scrap_upserts(rows, facility_id) \o equipment_upserts(rows, facility_id)

\* _upsert_baseline: the table after the upserts, those in `failing` raising inside
\* the supabase client (caught and logged by _upsert_baseline, nothing written)
BaselineKey(u) == <<u.facility_id, u.metric_type, u.identifier>>

\* the table if a refresh replaced it by the rows it writes
ReplaceAll(table, attempts, failing, now) ==
    LET written == {i \in 1..Len(attempts) : i \notin failing}
        last(k) == CHOOSE i \in written :
                       /\ BaselineKey(attempts[i]) = k
                       /\ \A j \in written : BaselineKey(attempts[j]) = k => j <= i
    IN  [k \in {BaselineKey(attempts[i]) : i \in written} |->
            [rolling_avg  |-> attempts[last(k)].rolling_avg,
             rolling_std  |-> attempts[last(k)].rolling_std,
             sample_count |-> attempts[last(k)].sample_count,
             last_updated |-> now]]

RECURSIVE upsert_all(_, _, _, _)
upsert_all(table, attempts, failing, now) ==
    IF attempts = <<>> THEN table
    ELSE LET n == Len(attempts)
             before == upsert_all(table, SubSeq(attempts, 1, n - 1), failing, now)
             u == attempts[n]
             row == [rolling_avg  |-> u.rolling_avg,
                     rolling_std  |-> u.rolling_std,
                     sample_count |-> u.sample_count,
                     last_updated |-> now]
         IN  IF n \in failing THEN before
             ELSE [k \in DOMAIN before \cup {BaselineKey(u)} |->
                      IF k = BaselineKey(u) THEN row ELSE before[k]]

\* the counts the four _calculate_*_baselines return: count += 1 follows every
\* _upsert_baseline call, which never raises
CountFailedToo(rows, facility_id, failing) ==
    [material_costs        |-> Len(material_upserts(rows, facility_id)),
     labor_hours           |-> Len(labor_upserts(rows, facility_id)),
     scrap_rates           |-> Len(scrap_upserts(rows, facility_id)),
     equipment_performance |-> Len(equipment_upserts(rows, facility_id))]

\* the value update_baselines returns
update_baselines_result(read_ok, rows, facility_id, failing) ==
    IF ~read_ok \/ rows = <<>> \/ ScrapRaises(rows) THEN EmptyMap
    ELSE CountFailedToo(rows, facility_id, failing)

-----------------------------------------------------------------------------
(* InsightPrioritizer.prioritize_insights                                  *)

MapSeq(s, Op(_)) == [i \in 1..Len(s) |-> Op(s[i])]

\* analyzer_results.get(name) when the analyzer did not run
NoneResult == [status |-> "none"]

\* `results and results.get('status') == 'success'`
IsSuccess(results) == Get(results, "status", "none") = "success"

extract_cost_insights(results) ==
    MapSeq(Get(results, "patterns", <<>>), cost_pattern_insight)
    \o MapSeq(Get(results, "predictions", <<>>), cost_prediction_insight)
extract_equipment_insights(results) == MapSeq(Get(results, "insights", <<>>), equipment_insight)
extract_quality_insights(results) == MapSeq(Get(results, "insights", <<>>), quality_insight)
extract_efficiency_insights(results) ==
    MapSeq(Get(results, "opportunities", <<>>), efficiency_insight)

\* all_insights of prioritize_insights
collect_insights(cost_results, equipment_results, quality_results, efficiency_results) ==
    (IF IsSuccess(cost_results) THEN extract_cost_insights(cost_results) ELSE <<>>)
    \o (IF IsSuccess(equipment_results) THEN extract_equipment_insights(equipment_results)
        ELSE <<>>)
    \o (IF IsSuccess(quality_results) THEN extract_quality_insights(quality_results) ELSE <<>>)
    \o (IF IsSuccess(efficiency_results) THEN extract_efficiency_insights(efficiency_results)
        ELSE <<>>)

\* a ScoredInsight is a Python object: oid is its identity (two insights with
\* equal fields are still two objects)
WithOid(rec, i) == [k \in DOMAIN rec \cup {"oid"} |-> IF k = "oid" THEN i ELSE rec[k]]

\* scored_insights.sort(key=priority_score, reverse=True): stable, so insights
\* with equal scores keep their order
InsertByScore(sorted, x) ==
    LET k == Cardinality({i \in 1..Len(sorted) : sorted[i].priority_score >= x.priority_score})
    IN  SubSeq(sorted, 1, k) \o <<x>> \o SubSeq(sorted, k + 1, Len(sorted))

RECURSIVE SortByScore(_)
SortByScore(s) ==
    IF s = <<>> THEN <<>>
    ELSE InsertByScore(SortByScore(SubSeq(s, 1, Len(s) - 1)), s[Len(s)])

\* the level assignment of prioritize_insights if it also reset the score
SetLevelAndScore(s, level) ==
    [i \in 1..Len(s) |-> [s[i] EXCEPT !.priority_level = level, !.priority_score = 0]]

SetLevel(s, level) == [i \in 1..Len(s) |-> [s[i] EXCEPT !.priority_level = level]]

\* the three slices of the sorted list
urgent_slice(sorted) == Slice(sorted, 0, URGENT_COUNT)
NotableSliceNoOffset(sorted) == Slice(sorted, URGENT_COUNT, NOTABLE_COUNT)
notable_slice(sorted) == Slice(sorted, URGENT_COUNT, URGENT_COUNT + NOTABLE_COUNT)
background_slice(sorted) == Slice(sorted, URGENT_COUNT + NOTABLE_COUNT, Len(sorted))

prioritize_insights(cost_results, equipment_results, quality_results, efficiency_results) ==
    LET all_insights == collect_insights(cost_results, equipment_results, quality_results,
                                         efficiency_results)
        scored_insights == [i \in 1..Len(all_insights) |->
                               WithOid(score_insight(all_insights[i]), i)]
        sorted == SortByScore(scored_insights)
    IN  [urgent         |-> SetLevel(urgent_slice(sorted), "urgent"),
         notable        |-> SetLevel(notable_slice(sorted), "notable"),
         background     |-> SetLevel(background_slice(sorted), "background"),
         total_insights |-> Len(scored_insights)]

\* prioritized before step 4 has run
NoPrioritized == [urgent |-> <<>>, notable |-> <<>>, background |-> <<>>, total_insights |-> 0]

-----------------------------------------------------------------------------
(* InsightPrioritizer.format_prioritized_feed                              *)

\* f"{source_analyzer}_{insight_type}_{identifier}": the three parts that are joined
feed_id(scored_insight) ==
    <<scored_insight.source_analyzer, scored_insight.insight_type,
      Get(scored_insight.insight_data, "identifier", "unknown")>>

format_insight(scored_insight) ==
    [id               |-> feed_id(scored_insight),
     priority         |-> scored_insight.priority_level,
     score            |-> scored_insight.priority_score,
     source           |-> scored_insight.source_analyzer,
     type             |-> scored_insight.insight_type,
     financial_impact |-> scored_insight.financial_impact,
     data             |-> scored_insight.insight_data,
     scores           |-> [financial  |-> scored_insight.financial_impact,
                           deviation  |-> scored_insight.deviation_score,
                           urgency    |-> scored_insight.urgency_score,
                           confidence |-> scored_insight.confidence_score]]

format_prioritized_feed(p) ==
    [urgent     |-> MapSeq(p.urgent, format_insight),
     notable    |-> MapSeq(p.notable, format_insight),
     background |-> MapSeq(p.background, format_insight),
     summary    |-> [total_insights   |-> p.total_insights,
                     urgent_count     |-> Len(p.urgent),
                     notable_count    |-> Len(p.notable),
                     background_count |-> Len(p.background),
                     total_financial_impact |->
                         SumSeq([i \in 1..Len(p.urgent \o p.notable) |->
                                    (p.urgent \o p.notable)[i].financial_impact])]]

NoFeed == format_prioritized_feed(NoPrioritized)

-----------------------------------------------------------------------------
(* DataTierDetector: what the orchestrator consumes of it                  *)

AnalyzerNames == <<"cost_analyzer", "equipment_predictor", "quality_analyzer",
                   "efficiency_analyzer">>

Tiers == 1..4

\* analyze not called yet: no csv_headers
NoHeaders == [none |-> FALSE, headers |-> <<>>]

\* TIER_REQUIREMENTS[tier]["analyzers"]
available_analyzers(t) ==
    CASE t = 1 -> {"cost_analyzer"}
      [] t = 2 -> {"cost_analyzer"}
      [] t = 3 -> {"cost_analyzer", "equipment_predictor", "quality_analyzer"}
      [] t = 4 -> {"cost_analyzer", "equipment_predictor", "quality_analyzer",
                   "efficiency_analyzer"}

-----------------------------------------------------------------------------
(* DataTierDetector (utils/data_tier_detector.py)                          *)

\* the characters of the header and pattern texts of the model
Chars(s) ==
    CASE s = "Work Order Number" ->
            <<"W", "o", "r", "k", " ", "O", "r", "d", "e", "r", " ", "N", "u", "m", "b",
              "e", "r">>
      [] s = "Planned Material Cost" ->
            <<"P", "l", "a", "n", "n", "e", "d", " ", "M", "a", "t", "e", "r", "i", "a",
              "l", " ", "C", "o", "s", "t">>
      [] s = "Actual Material Cost" ->
            <<"A", "c", "t", "u", "a", "l", " ", "M", "a", "t", "e", "r", "i", "a", "l",
              " ", "C", "o", "s", "t">>
      [] s = "Equipment ID" ->
            <<"E", "q", "u", "i", "p", "m", "e", "n", "t", " ", "I", "D">>
      [] s = "Machine ID" ->
            <<"M", "a", "c", "h", "i", "n", "e", " ", "I", "D">>
      [] s = "Units Scrapped" ->
            <<"U", "n", "i", "t", "s", " ", "S", "c", "r", "a", "p", "p", "e", "d">>
      [] s = "Quality Issues" ->
            <<"Q", "u", "a", "l", "i", "t", "y", " ", "I", "s", "s", "u", "e", "s">>
      [] s = "Material Code" ->
            <<"M", "a", "t", "e", "r", "i", "a", "l", " ", "C", "o", "d", "e">>
      [] s = " CYCLE TIME " ->
            <<" ", "C", "Y", "C", "L", "E", " ", "T", "I", "M", "E", " ">>
      [] s = "planned material cost" ->
            <<"p", "l", "a", "n", "n", "e", "d", " ", "m", "a", "t", "e", "r", "i", "a",
              "l", " ", "c", "o", "s", "t">>
      [] s = "material budget" ->
            <<"m", "a", "t", "e", "r", "i", "a", "l", " ", "b", "u", "d", "g", "e", "t">>
      [] s = "est material cost" ->
            <<"e", "s", "t", " ", "m", "a", "t", "e", "r", "i", "a", "l", " ", "c", "o",
              "s", "t">>
      [] s = "planned mat cost" ->
            <<"p", "l", "a", "n", "n", "e", "d", " ", "m", "a", "t", " ", "c", "o", "s",
              "t">>
      [] s = "actual material cost" ->
            <<"a", "c", "t", "u", "a", "l", " ", "m", "a", "t", "e", "r", "i", "a", "l",
              " ", "c", "o", "s", "t">>
      [] s = "material actual" ->
            <<"m", "a", "t", "e", "r", "i", "a", "l", " ", "a", "c", "t", "u", "a", "l">>
      [] s = "actual mat cost" ->
            <<"a", "c", "t", "u", "a", "l", " ", "m", "a", "t", " ", "c", "o", "s", "t">>
      [] s = "material cost" ->
            <<"m", "a", "t", "e", "r", "i", "a", "l", " ", "c", "o", "s", "t">>
      [] s = "planned labor hours" ->
            <<"p", "l", "a", "n", "n", "e", "d", " ", "l", "a", "b", "o", "r", " ", "h",
              "o", "u", "r", "s">>
      [] s = "labor budget hrs" ->
            <<"l", "a", "b", "o", "r", " ", "b", "u", "d", "g", "e", "t", " ", "h", "r",
              "s">>
      [] s = "est labor hours" ->
            <<"e", "s", "t", " ", "l", "a", "b", "o", "r", " ", "h", "o", "u", "r", "s">>
      [] s = "planned hours" ->
            <<"p", "l", "a", "n", "n", "e", "d", " ", "h", "o", "u", "r", "s">>
      [] s = "actual labor hours" ->
            <<"a", "c", "t", "u", "a", "l", " ", "l", "a", "b", "o", "r", " ", "h", "o",
              "u", "r", "s">>
      [] s = "labor actual hrs" ->
            <<"l", "a", "b", "o", "r", " ", "a", "c", "t", "u", "a", "l", " ", "h", "r",
              "s">>
      [] s = "actual hours" ->
            <<"a", "c", "t", "u", "a", "l", " ", "h", "o", "u", "r", "s">>
      [] s = "labor hours" ->
            <<"l", "a", "b", "o", "r", " ", "h", "o", "u", "r", "s">>
      [] s = "material code" ->
            <<"m", "a", "t", "e", "r", "i", "a", "l", " ", "c", "o", "d", "e">>
      [] s = "material number" ->
            <<"m", "a", "t", "e", "r", "i", "a", "l", " ", "n", "u", "m", "b", "e", "r">>
      [] s = "material id" ->
            <<"m", "a", "t", "e", "r", "i", "a", "l", " ", "i", "d">>
      [] s = "part number" ->
            <<"p", "a", "r", "t", " ", "n", "u", "m", "b", "e", "r">>
      [] s = "mat code" ->
            <<"m", "a", "t", " ", "c", "o", "d", "e">>
      [] s = "supplier id" ->
            <<"s", "u", "p", "p", "l", "i", "e", "r", " ", "i", "d">>
      [] s = "supplier code" ->
            <<"s", "u", "p", "p", "l", "i", "e", "r", " ", "c", "o", "d", "e">>
      [] s = "supplier number" ->
            <<"s", "u", "p", "p", "l", "i", "e", "r", " ", "n", "u", "m", "b", "e", "r">>
      [] s = "vendor id" ->
            <<"v", "e", "n", "d", "o", "r", " ", "i", "d">>
      [] s = "vendor code" ->
            <<"v", "e", "n", "d", "o", "r", " ", "c", "o", "d", "e">>
      [] s = "equipment id" ->
            <<"e", "q", "u", "i", "p", "m", "e", "n", "t", " ", "i", "d">>
      [] s = "equipment code" ->
            <<"e", "q", "u", "i", "p", "m", "e", "n", "t", " ", "c", "o", "d", "e">>
      [] s = "machine id" ->
            <<"m", "a", "c", "h", "i", "n", "e", " ", "i", "d">>
      [] s = "asset id" ->
            <<"a", "s", "s", "e", "t", " ", "i", "d">>
      [] s = "equipment number" ->
            <<"e", "q", "u", "i", "p", "m", "e", "n", "t", " ", "n", "u", "m", "b", "e",
              "r">>
      [] s = "scrapped quantity" ->
            <<"s", "c", "r", "a", "p", "p", "e", "d", " ", "q", "u", "a", "n", "t", "i",
              "t", "y">>
      [] s = "scrap qty" ->
            <<"s", "c", "r", "a", "p", " ", "q", "t", "y">>
      [] s = "scrapped qty" ->
            <<"s", "c", "r", "a", "p", "p", "e", "d", " ", "q", "t", "y">>
      [] s = "scrap" ->
            <<"s", "c", "r", "a", "p">>
      [] s = "scrap units" ->
            <<"s", "c", "r", "a", "p", " ", "u", "n", "i", "t", "s">>
      [] s = "rework quantity" ->
            <<"r", "e", "w", "o", "r", "k", " ", "q", "u", "a", "n", "t", "i", "t", "y">>
      [] s = "rework qty" ->
            <<"r", "e", "w", "o", "r", "k", " ", "q", "t", "y">>
      [] s = "rework" ->
            <<"r", "e", "w", "o", "r", "k">>
      [] s = "rework units" ->
            <<"r", "e", "w", "o", "r", "k", " ", "u", "n", "i", "t", "s">>
      [] s = "cycle time" ->
            <<"c", "y", "c", "l", "e", " ", "t", "i", "m", "e">>
      [] s = "process time" ->
            <<"p", "r", "o", "c", "e", "s", "s", " ", "t", "i", "m", "e">>
      [] s = "runtime" ->
            <<"r", "u", "n", "t", "i", "m", "e">>
      [] s = "cycle duration" ->
            <<"c", "y", "c", "l", "e", " ", "d", "u", "r", "a", "t", "i", "o", "n">>
      [] s = "start date" ->
            <<"s", "t", "a", "r", "t", " ", "d", "a", "t", "e">>
      [] s = "start time" ->
            <<"s", "t", "a", "r", "t", " ", "t", "i", "m", "e">>
      [] s = "begin date" ->
            <<"b", "e", "g", "i", "n", " ", "d", "a", "t", "e">>
      [] s = "operation start" ->
            <<"o", "p", "e", "r", "a", "t", "i", "o", "n", " ", "s", "t", "a", "r", "t">>
      [] s = "completion date" ->
            <<"c", "o", "m", "p", "l", "e", "t", "i", "o", "n", " ", "d", "a", "t", "e">>
      [] s = "end date" ->
            <<"e", "n", "d", " ", "d", "a", "t", "e">>
      [] s = "finish date" ->
            <<"f", "i", "n", "i", "s", "h", " ", "d", "a", "t", "e">>
      [] s = "operation end" ->
            <<"o", "p", "e", "r", "a", "t", "i", "o", "n", " ", "e", "n", "d">>
      [] s = "operation start time" ->
            <<"o", "p", "e", "r", "a", "t", "i", "o", "n", " ", "s", "t", "a", "r", "t",
              " ", "t", "i", "m", "e">>
      [] s = "op start" ->
            <<"o", "p", " ", "s", "t", "a", "r", "t">>
      [] s = "start timestamp" ->
            <<"s", "t", "a", "r", "t", " ", "t", "i", "m", "e", "s", "t", "a", "m", "p">>
      [] s = "operation end time" ->
            <<"o", "p", "e", "r", "a", "t", "i", "o", "n", " ", "e", "n", "d", " ", "t",
              "i", "m", "e">>
      [] s = "op end" ->
            <<"o", "p", " ", "e", "n", "d">>
      [] s = "end timestamp" ->
            <<"e", "n", "d", " ", "t", "i", "m", "e", "s", "t", "a", "m", "p">>

\* str.lower() and str.strip(), character by character
LowerChar(c) ==
    CASE c = "A" -> "a" [] c = "B" -> "b" [] c = "C" -> "c" [] c = "D" -> "d" [] c = "E" ->
      "e" [] c = "F" -> "f" [] c = "G" -> "g" [] c = "H" -> "h" [] c = "I" -> "i" [] c =
      "J" -> "j" [] c = "K" -> "k" [] c = "L" -> "l" [] c = "M" -> "m" [] c = "N" -> "n"
      [] c = "O" -> "o" [] c = "P" -> "p" [] c = "Q" -> "q" [] c = "R" -> "r" [] c = "S"
      -> "s" [] c = "T" -> "t" [] c = "U" -> "u" [] c = "V" -> "v" [] c = "W" -> "w" [] c
      = "X" -> "x" [] c = "Y" -> "y" [] c = "Z" -> "z"
      [] OTHER -> c

Lower(cs) == [i \in 1..Len(cs) |-> LowerChar(cs[i])]

Strip(cs) ==
    LET inside == {i \in 1..Len(cs) : cs[i] # " "}
    IN  IF inside = {} THEN <<>>
        ELSE SubSeq(cs, CHOOSE i \in inside : \A j \in inside : i <= j,
                    CHOOSE i \in inside : \A j \in inside : i >= j)

\* `pattern in header`
Contains(pattern, header) ==
    \E i \in 0..(Len(header) - Len(pattern)) : SubSeq(header, i + 1, i + Len(pattern)) = pattern

COLUMN_PATTERNS ==
    [planned_material_cost |-> <<"planned material cost", "material budget",
          "est material cost", "planned mat cost">>,
     actual_material_cost |-> <<"actual material cost", "material actual",
          "actual mat cost", "material cost">>,
     planned_labor_hours |-> <<"planned labor hours", "labor budget hrs",
          "est labor hours", "planned hours">>,
     actual_labor_hours |-> <<"actual labor hours", "labor actual hrs", "actual hours",
          "labor hours">>,
     material_code |-> <<"material code", "material number", "material id",
          "part number", "mat code">>,
     supplier_id |-> <<"supplier id", "supplier code", "supplier number", "vendor id",
          "vendor code">>,
     equipment_id |-> <<"equipment id", "equipment code", "machine id", "asset id",
          "equipment number">>,
     scrapped_quantity |-> <<"scrapped quantity", "scrap qty", "scrapped qty", "scrap",
          "scrap units">>,
     rework_quantity |-> <<"rework quantity", "rework qty", "rework", "rework units">>,
     cycle_time |-> <<"cycle time", "process time", "runtime", "cycle duration">>,
     start_date |-> <<"start date", "start time", "begin date", "operation start">>,
     completion_date |-> <<"completion date", "end date", "finish date", "operation end">>,
     operation_start_time |-> <<"operation start time", "op start", "start timestamp">>,
     operation_end_time |-> <<"operation end time", "op end", "end timestamp">>]

\* the required_all and required_any entries of TIER_REQUIREMENTS (its
\* "analyzers" entries are available_analyzers)
TIER_REQUIREMENTS ==
    <<[required_any |-> <<<<"planned_material_cost", "actual_material_cost">>,
                          <<"planned_labor_hours", "actual_labor_hours">>>>],
      [required_all |-> <<"material_code">>],
      [required_any |-> <<<<"equipment_id">>, <<"scrapped_quantity", "rework_quantity">>>>],
      [required_any |-> <<<<"cycle_time">>, <<"start_date", "completion_date">>,
                          <<"operation_start_time", "operation_end_time">>>>]>>

\* _map_headers
map_headers(normalized_headers) ==
    [standard_field \in DOMAIN COLUMN_PATTERNS |->
        \E h \in 1..Len(normalized_headers) :
            \E p \in 1..Len(COLUMN_PATTERNS[standard_field]) :
                Contains(Chars(COLUMN_PATTERNS[standard_field][p]), normalized_headers[h])]

\* _meets_tier_requirements
meets_tier_requirements(tier_level, mapped_fields) ==
    LET requirements == TIER_REQUIREMENTS[tier_level]
    IN  /\ "required_all" \in DOMAIN requirements =>
              \A i \in 1..Len(requirements.required_all) :
                  mapped_fields[requirements.required_all[i]]
        /\ "required_any" \in DOMAIN requirements =>
              \E g \in 1..Len(requirements.required_any) :
                  \A i \in 1..Len(requirements.required_any[g]) :
                      mapped_fields[requirements.required_any[g][i]]

\* detect_tier: the achieved tier, the highest of 4, 3, 2, 1 whose own
\* requirements are met, 1 if none is
detect_tier(headers) ==
    LET normalized == [i \in 1..Len(headers) |-> Strip(Lower(Chars(headers[i])))]
        mapped_fields == map_headers(normalized)
        met == {t \in Tiers : meets_tier_requirements(t, mapped_fields)}
    IN  IF met = {} THEN 1 ELSE CHOOSE t \in met : \A u \in met : u <= t

\* the header lists of test_tier_detection, and lists with a material code and a
\* cycle time column
Tier1Headers == <<"Work Order Number", "Planned Material Cost", "Actual Material Cost">>
Tier2Headers == Tier1Headers \o <<"Equipment ID", "Machine ID">>
Tier3Headers == Tier2Headers \o <<"Units Scrapped", "Quality Issues">>
HeaderLists ==
    {Tier1Headers, Tier2Headers, Tier3Headers, Tier1Headers \o <<"Material Code">>,
     Tier1Headers \o <<" CYCLE TIME ">>}

\* the csv_headers analyze can be called with: a list, or None (a JSON null)
CsvHeaders ==
    {[none |-> TRUE, headers |-> <<>>]} \cup {[none |-> FALSE, headers |-> h] : h \in HeaderLists}

-----------------------------------------------------------------------------
(* CostAnalyzer.predict_cost_variance: the results it hands to the         *)
(* orchestrator for a batch                                                *)

\* min_variance_amount, the floor of variance_threshold
MinVarianceAmount == 1000

\* risk_level of a prediction
risk_level_of(total_variance) ==
    IF Abs(total_variance) > MinVarianceAmount * 5 THEN "critical"
    ELSE IF Abs(total_variance) > MinVarianceAmount * 2 THEN "high"
    ELSE "medium"

\* pattern_min_orders
PatternMinOrders == 3

\* the largest number of significant work orders in a batch of the model
\* (at most 20, so nlargest(20) keeps them all)
MaxSignificant == 16

WorkOrderNumbers ==
    <<"WO-001", "WO-002", "WO-003", "WO-004", "WO-005", "WO-006", "WO-007", "WO-008",
      "WO-009", "WO-010", "WO-011", "WO-012", "WO-013", "WO-014", "WO-015", "WO-016",
      "WO-017", "WO-018", "WO-019", "WO-020", "WO-021", "WO-022", "WO-023", "WO-024">>

\* Batches differ in how the variances of their significant work orders
\* (|total_variance| > variance_threshold) fall off.  Each profile lists them in
\* the order of significant.nlargest(20, "total_variance"): descending by
\* signed variance.
Profiles == {"flat", "steep", "mixed"}

ProfileVariance(profile, i) ==
    CASE profile = "flat"  -> 1500
      [] profile = "steep" -> 12500 - 500 * i
      [] profile = "mixed" -> IF i <= 3 THEN 5000 - 1000 * i ELSE -1000 - 200 * (i - 3)

\* _calculate_confidence of the batch's rows, min(92, ...) / 100
ProfileConfidence(profile) ==
    CASE profile = "flat" -> 72 [] profile = "steep" -> 80 [] profile = "mixed" -> 66

\* Batches differ in which of their orders carry which material code and
\* supplier id.  Each material group is a block of consecutive orders, the blocks
\* laid out from the first order on; the supplier group is the last orders of
\* the batch.  A material code and a supplier id are both free text of the
\* upload: "X-100" occurs as both.  "" is a null column.
MaterialGroups ==
    <<[code |-> "MAT-A", size |-> 3], [code |-> "MAT-B", size |-> 3],
      [code |-> "X-100", size |-> 4]>>
SupplierGroups == <<[code |-> "X-100", size |-> 4]>>
Layouts == [materials : SUBSET (1..Len(MaterialGroups)), suppliers : SUBSET (1..Len(SupplierGroups))]

RECURSIVE BlockCodes(_, _, _)
BlockCodes(groups, chosen, g) ==
    IF g > Len(groups) THEN <<>>
    ELSE (IF g \in chosen THEN [j \in 1..groups[g].size |-> groups[g].code] ELSE <<>>)
         \o BlockCodes(groups, chosen, g + 1)

\* the significant rows of a batch
SignificantRows(profile, n, layout) ==
    LET mats == BlockCodes(MaterialGroups, layout.materials, 1)
        sups == BlockCodes(SupplierGroups, layout.suppliers, 1)
    IN  [i \in 1..n |->
            [work_order_number |-> WorkOrderNumbers[i],
             total_variance    |-> ProfileVariance(profile, i),
             confidence        |-> ProfileConfidence(profile),
             material_code     |-> IF i <= Len(mats) THEN mats[i] ELSE "",
             supplier_id       |-> IF n - i < Len(sups) THEN sups[n - i + 1] ELSE ""]]

\* significant.groupby(column) ... [order_count >= pattern_min_orders]: one
\* pattern per code, in key order
RECURSIVE GroupPatterns(_, _, _, _, _)
GroupPatterns(rows, column, type, codes, g) ==
    IF g > Len(codes) THEN <<>>
    ELSE LET members == SelectSeq(rows, LAMBDA r : r[column] = codes[g].code)
             pattern == [type         |-> type,
                         identifier   |-> codes[g].code,
                         order_count  |-> Len(members),
                         total_impact |-> SumSeq([i \in 1..Len(members) |->
                                                     members[i].total_variance])]
         IN  (IF Len(members) >= PatternMinOrders THEN <<pattern>> ELSE <<>>)
             \o GroupPatterns(rows, column, type, codes, g + 1)

\* all_patterns.sort(key=lambda x: abs(x["total_impact"]), reverse=True): stable
InsertByImpact(sorted, x) ==
    LET k == Cardinality({i \in 1..Len(sorted) :
                            Abs(sorted[i].total_impact) >= Abs(x.total_impact)})
    IN  SubSeq(sorted, 1, k) \o <<x>> \o SubSeq(sorted, k + 1, Len(sorted))

RECURSIVE SortByImpact(_)
SortByImpact(s) ==
    IF s = <<>> THEN <<>>
    ELSE InsertByImpact(SortByImpact(SubSeq(s, 1, Len(s) - 1)), s[Len(s)])

\* the dict predict_cost_variance returns with status 'success'
cost_success(rows) ==
    [status       |-> "success",
     predictions  |-> [i \in 1..Len(rows) |->
                          [work_order_number  |-> rows[i].work_order_number,
                           predicted_variance |-> rows[i].total_variance,
                           confidence         |-> rows[i].confidence,
                           risk_level         |-> risk_level_of(rows[i].total_variance)]],
     patterns     |-> SortByImpact(GroupPatterns(rows, "material_code", "material",
                                                 MaterialGroups, 1)
                                   \o GroupPatterns(rows, "supplier_id", "supplier",
                                                    SupplierGroups, 1)),
     total_impact |-> SumSeq([i \in 1..Len(rows) |-> rows[i].total_variance])]

\* every way predict_cost_variance can end: it raises (always, when the
\* work_orders query cannot be executed), or it returns one of its dicts
CostOutcomes(readable) ==
    IF ~readable THEN {[raises |-> TRUE]}
    ELSE {[raises |-> TRUE]}
         \cup {[raises |-> FALSE, results |-> [status |-> "error", error |-> "no_data",
                            message |-> "No work order data found for analysis."]],
               [raises |-> FALSE,
                results |-> [status |-> "insufficient_data", error |-> "insufficient_data",
                            message |-> "Cannot analyze cost variance."]]}
         \cup {[raises |-> FALSE,
                results |-> cost_success(SignificantRows(profile, n, layout))] :
                    profile \in Profiles, n \in 0..MaxSignificant, layout \in Layouts}

-----------------------------------------------------------------------------
(* AutoAnalysisOrchestrator: helpers                                       *)

\* analyzer_results.get(name)
ResultOf(results, name) == IF name \in DOMAIN results THEN results[name] ELSE NoneResult

\* the summary of a 'success' result
SuccessSummary(r) ==
    [status         |-> "success",
     insights_found |-> Len(Get(r, "predictions", <<>>)) + Len(Get(r, "patterns", <<>>))
                        + Len(Get(r, "quality_issues", <<>>))
                        + Len(Get(r, "opportunities", <<>>))]
    @@ (IF "total_impact" \in DOMAIN r THEN [total_impact |-> r.total_impact] ELSE EmptyMap)
    @@ (IF "total_savings_opportunity" \in DOMAIN r
        THEN [total_savings |-> r.total_savings_opportunity] ELSE EmptyMap)

\* _summarize_analyzer_result without its branch for status 'error'
SummarizeWithoutErrorBranch(r) ==
    LET status == Get(r, "status", "none")
    IN  IF r = NoneResult THEN [status |-> "not_run"]
        ELSE IF status = "not_implemented" THEN [status |-> "not_implemented"]
        ELSE IF status = "insufficient_data"
        THEN [status |-> "insufficient_data", message |-> Get(r, "message", "Insufficient data")]
        ELSE IF status = "success" THEN SuccessSummary(r)
        ELSE [status |-> "unknown"]

\* _summarize_analyzer_result
summarize_analyzer_result(r) ==
    LET status == Get(r, "status", "none")
    IN  IF r = NoneResult THEN [status |-> "not_run"]
        ELSE IF status = "error"
        THEN [status |-> "error", error |-> Get(r, "error", "Unknown error")]
        ELSE IF status = "not_implemented" THEN [status |-> "not_implemented"]
        ELSE IF status = "insufficient_data"
        THEN [status |-> "insufficient_data", message |-> Get(r, "message", "Insufficient data")]
        ELSE IF status = "success" THEN SuccessSummary(r)
        ELSE [status |-> "unknown"]

\* str(priority_level): InsightPriority mixes str into Enum, and str() of such a
\* member is Enum.__str__, 'InsightPriority.URGENT', not its value
str_priority_level(level) ==
    CASE level = "urgent"     -> "InsightPriority.URGENT"
      [] level = "notable"    -> "InsightPriority.NOTABLE"
      [] level = "background" -> "InsightPriority.BACKGROUND"

\* the statuses _aggregate_trends collects from the members
TrendStatuses(insights) ==
    {Get(Get(insights[i].insight_data, "trend", EmptyMap), "status", "STABLE") :
        i \in 1..Len(insights)}

\* _aggregate_trends that looks for a decelerating member first
AggregateTrendsDeceleratingFirst(insights) ==
    IF "DECELERATING" \in TrendStatuses(insights)
    THEN [status |-> "DECELERATING", direction |-> "down-right"]
    ELSE IF "ACCELERATING" \in TrendStatuses(insights)
    THEN [status |-> "ACCELERATING", direction |-> "up-right"]
    ELSE [status |-> "STABLE", direction |-> "right"]

\* _aggregate_trends; the directions stand for the arrows of the source
aggregate_trends(insights) ==
    IF "ACCELERATING" \in TrendStatuses(insights)
    THEN [status |-> "ACCELERATING", direction |-> "up-right"]
    ELSE IF "DECELERATING" \in TrendStatuses(insights)
    THEN [status |-> "DECELERATING", direction |-> "down-right"]
    ELSE [status |-> "STABLE", direction |-> "right"]

\* material_patterns of _create_investigations (processed_ids is still empty)
IsMaterialPattern(i) ==
    i.insight_type = "pattern" /\ Get(i.insight_data, "type", "none") \in {"material", "supplier"}

\* MinGroupSize: `if len(material_patterns) >= 2`
MinGroupSize == 2

\* _create_investigations; an exception inside it is caught and [] returned
create_investigations(insights, raises, now) ==
    LET material_patterns == SelectSeq(insights, IsMaterialPattern)
    IN  IF raises THEN <<>>
        ELSE IF Len(material_patterns) >= MinGroupSize
        THEN <<[type               |-> "investigation_summary",
                id                 |-> <<"inv_supplier", now>>,
                title              |-> "Supplier Change Crisis",
                total_impact       |-> SumSeq(MapSeq(material_patterns,
                                                     LAMBDA i : i.financial_impact)),
                trend              |-> aggregate_trends(material_patterns),
                connected_insights |-> MapSeq(material_patterns, feed_id),
                members            |-> MapSeq(material_patterns, LAMBDA i : i.oid),
                priority           |-> IF \E k \in 1..Len(material_patterns) :
                                             str_priority_level(material_patterns[k].priority_level)
                                             = "urgent"
                                       THEN "URGENT" ELSE "NOTABLE",
                insight_count      |-> Len(material_patterns),
                materials_affected |-> MapSeq(material_patterns,
                                              LAMBDA i : Get(i.insight_data, "identifier",
                                                             "Unknown"))]>>
        ELSE <<>>

\* all_insights handed to _create_investigations (step 5 of analyze)
InvestigationInputAllTiers(p) == p.urgent \o p.notable \o p.background
investigation_input(p) == p.urgent \o p.notable

\* the order of the steps of analyze and of _run_analyzers
RunOrderBaselineLate ==
    <<"tier", "cost_analyzer", "baseline", "equipment_predictor", "quality_analyzer",
      "efficiency_analyzer", "prioritize", "investigate", "format">>
RunOrder ==
    <<"tier", "baseline", "cost_analyzer", "equipment_predictor", "quality_analyzer",
      "efficiency_analyzer", "prioritize", "investigate", "format">>

IsAnalyzer(step) == \E i \in 1..Len(AnalyzerNames) : AnalyzerNames[i] = step

\* _run_analyzers without its `if '<name>' in available_analyzers` tests
ApplicableWhateverTier(step, t) == TRUE

\* `if '<name>' in available_analyzers` of _run_analyzers
Applicable(step, t) == ~IsAnalyzer(step) \/ step \in available_analyzers(t)

\* the step that follows `step` in a run of tier t, "done" after the last
StepAfter(step, t) ==
    LET pos == CHOOSE i \in 1..Len(RunOrder) : RunOrder[i] = step
        later == {i \in (pos + 1)..Len(RunOrder) : Applicable(RunOrder[i], t)}
    IN  IF later = {} THEN "done"
        ELSE RunOrder[CHOOSE i \in later : \A j \in later : i <= j]

\* keys of analyzer_results, in insertion order
analyzers_run(results) == SelectSeq(AnalyzerNames, LAMBDA a : a \in DOMAIN results)

\* the facility and the batch of the run that the orchestrator model follows
RunFacility == 1
RunBatch == "BATCH-1"
\* 'metadata' of the dict analyze returns (without its timestamps)
run_metadata == [batch_id |-> RunBatch, facility_id |-> RunFacility]

\* the dict analyze returns from its try block
success_result(t, formatted, invs, results, updated) ==
    [success          |-> TRUE,
     data_tier        |-> t,
     insights         |-> formatted,
     investigations   |-> invs,
     analyzer_details |->
         [analyzers_run       |-> analyzers_run(results),
          cost_analyzer       |-> summarize_analyzer_result(ResultOf(results, "cost_analyzer")),
          equipment_predictor |->
              summarize_analyzer_result(ResultOf(results, "equipment_predictor")),
          quality_analyzer    |-> summarize_analyzer_result(ResultOf(results, "quality_analyzer")),
          efficiency_analyzer |->
              summarize_analyzer_result(ResultOf(results, "efficiency_analyzer"))],
     baseline_updates |-> updated,
     metadata         |-> run_metadata]

\* the dict analyze returns from its except block
FailureReportedAsSuccess ==
    [success |-> TRUE, error |-> "Auto-analysis failed", technical_details |-> "traceback",
     metadata |-> run_metadata]
failure_result ==
    [success |-> FALSE, error |-> "Auto-analysis failed", technical_details |-> "traceback",
     metadata |-> run_metadata]

-----------------------------------------------------------------------------
(* Rows of the work_orders table used by the model                         *)

OrderPalette ==
    <<[facility_id |-> 1, age_days |-> 1, material_code |-> "MAT-A", actual_material_cost |-> 10,
       operation_type |-> "milling", actual_labor_hours |-> 2, units_scrapped |-> 1,
       units_produced |-> 10, equipment_id |-> "MILL-01"],
      [facility_id |-> 1, age_days |-> 5, material_code |-> "MAT-A", actual_material_cost |-> 14,
       actual_labor_hours |-> 4, units_scrapped |-> 0, units_produced |-> 10,
       machine_id |-> "MILL-01"],
      [facility_id |-> 1, age_days |-> 2, material_code |-> "MAT-B", actual_material_cost |-> 0,
       operation_type |-> "", actual_labor_hours |-> 0, units_scrapped |-> 5,
       units_produced |-> 100],
      [facility_id |-> 1, age_days |-> 3, material_code |-> "MAT-B", actual_material_cost |-> 12,
       operation_type |-> "milling", actual_labor_hours |-> 3, units_produced |-> 10],
      [facility_id |-> 1, age_days |-> 40, material_code |-> "MAT-A", actual_material_cost |-> 30,
       operation_type |-> "milling", actual_labor_hours |-> 9, units_scrapped |-> 2,
       units_produced |-> 10, equipment_id |-> "MILL-01"],
      [facility_id |-> 2, age_days |-> 3, material_code |-> "MAT-A", actual_material_cost |-> 20,
       operation_type |-> "turning", actual_labor_hours |-> 3, units_scrapped |-> 0,
       units_produced |-> 10, equipment_id |-> "LATHE-2"]>>

Facilities == {1, 2}

\* the most rows the table holds, and the most refreshes of one behaviour
MaxOrders == 3
MaxRefreshes == 2

\* the rows uploaded while update_baselines runs overlap, and how many
OverlapRows == {1, 2, 6}
MaxOverlapOrders == 2

-----------------------------------------------------------------------------
(* BaselineTracker.update_baselines                                        *)

\* which upserts of a refresh fail: none, any single one, or all of them
FailingChoices(n) == {{}} \cup {{k} : k \in 1..n} \cup {1..n}

\* update_baselines(facility_id): read_ok is whether the work_orders query
\* succeeds, failing the indices of the upserts that fail
UpdateBaselines(facility_id, read_ok, failing) ==
    LET rows == IF read_ok THEN WindowRows(work_orders, facility_id) ELSE <<>>
        attempts == baseline_upserts(rows, facility_id)
    IN  /\ facility_baselines' = upsert_all(facility_baselines, attempts, failing, clock + 1)
        /\ upsert_log' = [i \in 1..Len(attempts) |->
                             [key |-> BaselineKey(attempts[i]), failed |-> i \in failing]]
        /\ updates' = <<[read_ok  |-> read_ok,
                         window   |-> rows,
                         raised   |-> read_ok /\ ScrapRaises(rows),
                         returned |-> update_baselines_result(read_ok, rows, facility_id,
                                                              failing)]>>
        /\ clock' = clock + 1
        /\ UNCHANGED work_orders

\* a refresh on its own (the tracker called outside the orchestrator)
Refresh ==
    /\ clock < MaxRefreshes
    /\ \E facility_id \in Facilities, read_ok \in BOOLEAN :
          \E failing \in FailingChoices(Len(baseline_upserts(
                             WindowRows(work_orders, facility_id), facility_id))) :
              /\ read_ok \/ failing = {}
              /\ UpdateBaselines(facility_id, read_ok, failing)
    /\ UNCHANGED <<scoreVars, runVars, concVars, detectVars>>

\* an upload adds a row to work_orders
Upload ==
    /\ Len(work_orders) < MaxOrders
    /\ \E i \in 1..Len(OrderPalette) : work_orders' = Append(work_orders, OrderPalette[i])
    /\ UNCHANGED <<facility_baselines, upsert_log, updates, clock, scoreVars, runVars,
                   concVars, detectVars>>

-----------------------------------------------------------------------------
(* AutoAnalysisOrchestrator.analyze, step by step                          *)

\* analyze without its except block: the exception reaches the caller and
\* nothing is returned
AbortRaising(step) ==
    /\ result' = result
    /\ faults' = faults \cup {step}
    /\ pc' = "done"

\* the except block of analyze: the run ends with success False
Abort(step) ==
    /\ result' = <<failure_result>>
    /\ faults' = faults \cup {step}
    /\ pc' = "done"

\* Step 1: tier_detector.detect_tier(csv_headers); iterating over None raises
\* TypeError, which the except of analyze catches
DetectTier ==
    /\ pc = "tier"
    /\ IF csv_headers.none
       THEN /\ Abort("tier")
            /\ UNCHANGED <<tier, trace>>
       ELSE /\ tier' = detect_tier(csv_headers.headers)
            /\ pc' = StepAfter("tier", tier')
            /\ trace' = Append(trace, "tier")
            /\ UNCHANGED <<result, faults>>
    /\ UNCHANGED <<failed_reads, baseline_updates, analyzer_results, prioritized, investigations,
                   feed, csv_headers, scoreVars, concVars,
                   detectVars, baselineVars>>

\* Step 2: baseline_tracker.update_baselines(facility_id, batch_id); the tracker
\* is always set (the constructor of CostAnalyzer raises without the credentials
\* the tracker needs), and update_baselines catches what it raises
RefreshBaselines ==
    /\ pc = "baseline"
    /\ \E read_ok \in BOOLEAN, failing \in {{}, {1}} :
          /\ read_ok \/ failing = {}
          /\ UpdateBaselines(RunFacility, read_ok, failing)
          /\ failed_reads' = IF read_ok THEN failed_reads ELSE failed_reads \cup {"baseline"}
    /\ baseline_updates' = updates'[1].returned
    /\ faults' = IF updates'[1].read_ok /\ ~updates'[1].raised THEN faults
                 ELSE faults \cup {"baseline"}
    /\ trace' = Append(trace, "baseline")
    /\ pc' = StepAfter("baseline", tier)
    /\ UNCHANGED <<tier, analyzer_results, prioritized, investigations, feed, result,
                   csv_headers, scoreVars, concVars,
                   detectVars>>

\* Step 3, _run_analyzers: cost_analyzer.predict_cost_variance in its try/except
RunCostAnalyzer ==
    /\ pc = "cost_analyzer"
    /\ \E readable \in BOOLEAN : \E o \in CostOutcomes(readable) :
          /\ failed_reads' = IF readable THEN failed_reads
                               ELSE failed_reads \cup {"cost_analyzer"}
          /\ analyzer_results' =
                [a \in DOMAIN analyzer_results \cup {"cost_analyzer"} |->
                    IF a # "cost_analyzer" THEN analyzer_results[a]
                    ELSE IF o.raises THEN [status |-> "error", error |-> "exception"]
                    ELSE o.results]
          /\ faults' = IF o.raises THEN faults \cup {"cost_analyzer"} ELSE faults
    /\ trace' = Append(trace, "cost_analyzer")
    /\ pc' = StepAfter("cost_analyzer", tier)
    /\ UNCHANGED <<tier, baseline_updates, prioritized, investigations, feed, result,
                   csv_headers, scoreVars, concVars,
                   detectVars, baselineVars>>

\* Step 3, _run_analyzers: an analyzer that is not wired in yet; its try body
\* only builds the 'not_implemented' dict
RunPlaceholder(name) ==
    /\ pc = name
    /\ analyzer_results' =
          [a \in DOMAIN analyzer_results \cup {name} |->
              IF a # name THEN analyzer_results[a] ELSE [status |-> "not_implemented"]]
    /\ trace' = Append(trace, name)
    /\ pc' = StepAfter(name, tier)
    /\ UNCHANGED <<failed_reads, tier, baseline_updates, prioritized, investigations, feed, result,
                   faults, csv_headers, scoreVars, concVars,
                   detectVars, baselineVars>>

RunEquipmentPredictor == RunPlaceholder("equipment_predictor")
RunQualityAnalyzer == RunPlaceholder("quality_analyzer")
RunEfficiencyAnalyzer == RunPlaceholder("efficiency_analyzer")

\* Step 4: prioritizer.prioritize_insights(...)
PrioritizeInsights ==
    /\ pc = "prioritize"
    /\ \/ /\ prioritized' = prioritize_insights(
                                 ResultOf(analyzer_results, "cost_analyzer"),
                                 ResultOf(analyzer_results, "equipment_predictor"),
                                 ResultOf(analyzer_results, "quality_analyzer"),
                                 ResultOf(analyzer_results, "efficiency_analyzer"))
          /\ trace' = Append(trace, "prioritize")
          /\ pc' = StepAfter("prioritize", tier)
          /\ UNCHANGED <<result, faults>>
       \/ /\ Abort("prioritize")
          /\ UNCHANGED <<prioritized, trace>>
    /\ UNCHANGED <<failed_reads, tier, baseline_updates, analyzer_results, investigations, feed,
                   csv_headers, scoreVars, concVars,
                   detectVars, baselineVars>>

\* Step 5: _create_investigations(urgent + notable), which catches its exceptions
CreateInvestigations ==
    /\ pc = "investigate"
    /\ \E raises \in BOOLEAN :
          /\ investigations' = create_investigations(investigation_input(prioritized), raises, clock)
          /\ faults' = IF raises THEN faults \cup {"investigate"} ELSE faults
    /\ trace' = Append(trace, "investigate")
    /\ pc' = StepAfter("investigate", tier)
    /\ UNCHANGED <<failed_reads, tier, baseline_updates, analyzer_results, prioritized, feed, result,
                   csv_headers, scoreVars, concVars,
                   detectVars, baselineVars>>

\* Step 6: prioritizer.format_prioritized_feed(prioritized) and the return
FormatFeed ==
    /\ pc = "format"
    /\ \/ /\ feed' = format_prioritized_feed(prioritized)
          /\ result' = <<success_result(tier, feed', investigations, analyzer_results,
                                        baseline_updates)>>
          /\ trace' = Append(trace, "format")
          /\ pc' = StepAfter("format", tier)
          /\ UNCHANGED faults
       \/ /\ Abort("format")
          /\ UNCHANGED <<feed, trace>>
    /\ UNCHANGED <<failed_reads, tier, baseline_updates, analyzer_results, prioritized,
                   investigations, csv_headers, scoreVars, concVars,
                   detectVars, baselineVars>>

-----------------------------------------------------------------------------
(* InsightPrioritizer._score_insight on its own                            *)

ScoreInsight ==
    /\ scored = <<>>
    /\ scored' = <<score_insight(insight)>>
    /\ UNCHANGED <<insight, runVars, baselineVars, concVars, detectVars>>

-----------------------------------------------------------------------------
(* Specifications                                                          *)

ScoreIdle == insight = NoInsight /\ scored = <<>>

RunIdle ==
    /\ csv_headers = NoHeaders
    /\ pc = "idle"
    /\ failed_reads = {}
    /\ tier = 0
    /\ baseline_updates = EmptyMap
    /\ analyzer_results = EmptyMap
    /\ prioritized = NoPrioritized
    /\ investigations = <<>>
    /\ feed = NoFeed
    /\ result = <<>>
    /\ trace = <<>>
    /\ faults = {}

BaselineEmpty ==
    /\ facility_baselines = EmptyMap
    /\ upsert_log = <<>>
    /\ updates = <<>>
    /\ clock = 0

\* no update_baselines run is under way
NoRuns == runs = <<>>

\* no detector function has been called
NoCall == call = [fn |-> "none"] /\ outcome = <<>>

\* one run of analyze on a constructed orchestrator
Init ==
    /\ ScoreIdle
    /\ csv_headers \in CsvHeaders
    /\ pc = "tier"
    /\ failed_reads = {}
    /\ tier = 0
    /\ baseline_updates = EmptyMap
    /\ analyzer_results = EmptyMap
    /\ prioritized = NoPrioritized
    /\ investigations = <<>>
    /\ feed = NoFeed
    /\ result = <<>>
    /\ trace = <<>>
    /\ faults = {}
    /\ work_orders = <<OrderPalette[1], OrderPalette[2]>>
    /\ BaselineEmpty
    /\ NoRuns
    /\ NoCall

Next ==
    \/ DetectTier
    \/ RefreshBaselines
    \/ RunCostAnalyzer
    \/ RunEquipmentPredictor
    \/ RunQualityAnalyzer
    \/ RunEfficiencyAnalyzer
    \/ PrioritizeInsights
    \/ CreateInvestigations
    \/ FormatFeed

Spec == Init /\ [][Next]_vars

\* _score_insight applied to one insight of one of the shapes the extractors build
InitScore ==
    /\ insight \in ScoreInputs
    /\ scored = <<>>
    /\ RunIdle
    /\ work_orders = <<>>
    /\ BaselineEmpty
    /\ NoRuns
    /\ NoCall

NextScore == ScoreInsight

SpecScore == InitScore /\ [][NextScore]_vars

\* refreshes of the baselines of a growing work_orders table
InitBaseline ==
    /\ ScoreIdle
    /\ RunIdle
    /\ work_orders = <<>>
    /\ BaselineEmpty
    /\ NoRuns
    /\ NoCall

NextBaseline == Refresh \/ Upload

SpecBaseline == InitBaseline /\ [][NextBaseline]_vars

-----------------------------------------------------------------------------
(* TrendDetector (analytics/trend_detector.py)                             *)

\* Python's None as a return value, and a returned dict or point
None == [none |-> TRUE]
Some(v) == [none |-> FALSE, value |-> v]

\* the loop of _find_divergence_point from point i on: the indices of the first
\* and the last point of the run of 3 it stops at, or None.  threshold10 is ten
\* times the threshold, values and baseline_avg in the same unit.
RECURSIVE DivergenceLoop(_, _, _, _, _, _)
DivergenceLoop(data_points, i, consecutive_divergent, divergence_start, avg, threshold10) ==
    IF i > Len(data_points) THEN None
    ELSE IF 10 * Abs(data_points[i].value - avg) > threshold10
    THEN LET consecutive == consecutive_divergent + 1
             start == IF consecutive = 1 THEN i ELSE divergence_start
         IN  IF consecutive >= 3 THEN Some([start |-> start, last |-> i])
             ELSE DivergenceLoop(data_points, i + 1, consecutive, start, avg,
                                 threshold10)
    ELSE DivergenceLoop(data_points, i + 1, 0, 0, avg, threshold10)

\* threshold = baseline_std * 2 if baseline_std > 0 else baseline_avg * 0.2, times 10
DivergenceThreshold10(baseline_avg, baseline_std) ==
    IF baseline_std > 0 THEN 20 * baseline_std ELSE 2 * baseline_avg

\* _find_divergence_point returning the point at which it notices the run
FindDivergenceLastOfRun(data_points, baseline_avg, baseline_std) ==
    LET found == DivergenceLoop(data_points, 1, 0, 0, baseline_avg,
                                DivergenceThreshold10(baseline_avg, baseline_std))
    IN  IF Len(data_points) < 3 \/ found.none THEN None
        ELSE Some(data_points[found.value.last])

\* _find_divergence_point
find_divergence_point(data_points, baseline_avg, baseline_std) ==
    LET found == DivergenceLoop(data_points, 1, 0, 0, baseline_avg,
                                DivergenceThreshold10(baseline_avg, baseline_std))
    IN  IF Len(data_points) < 3 \/ found.none THEN None
        ELSE Some(data_points[found.value.start])

\* datetime.fromisoformat(upload_timestamp.replace('Z', '+00:00')): a timestamp is
\* its age in whole days before now and its timezone designator ("" for none);
\* the datetime is offset-aware exactly when a designator is present
ParseTimestamp(ts) ==
    LET replaced == IF ts.tz = "Z" THEN "+00:00" ELSE ts.tz
    IN  [age_days |-> ts.age_days, aware |-> replaced # ""]

\* date.isoformat()
IsoFormat(date) == [age_days |-> date.age_days, tz |-> IF date.aware THEN "+00:00" ELSE ""]

\* the branch of _extract_metric_values for metric_type: whether the order
\* matches, and its value (none for a null column)
MetricValue(wo, metric_type, identifier) ==
    LET column(k) == IF k \in DOMAIN wo THEN Some(wo[k]) ELSE None
    IN  CASE metric_type = "material_cost" ->
                IF Get(wo, "material_code", "") = identifier
                THEN [matches |-> TRUE, value |-> column("actual_material_cost")]
                ELSE [matches |-> FALSE, value |-> None]
          [] metric_type = "labor_hours" ->
                IF Get(wo, "operation_type", "general") = identifier
                THEN [matches |-> TRUE, value |-> column("actual_labor_hours")]
                ELSE [matches |-> FALSE, value |-> None]
          [] metric_type = "scrap_rate" ->
                IF Get(wo, "material_code", "") = identifier /\ UnitsProduced(wo) > 0
                THEN [matches |-> TRUE, value |-> Some(ScrapValue(wo))]
                ELSE [matches |-> FALSE, value |-> None]
          [] metric_type = "equipment_cycle_time" ->
                IF HasEquipment(wo) /\ EquipmentKey(wo) = identifier
                THEN [matches |-> TRUE, value |-> column("actual_labor_hours")]
                ELSE [matches |-> FALSE, value |-> None]
          [] OTHER -> [matches |-> FALSE, value |-> None]

\* the data points appended by the loop of _extract_metric_values, in row order
RECURSIVE MetricPoints(_, _, _)
MetricPoints(orders, metric_type, identifier) ==
    IF orders = <<>> THEN <<>>
    ELSE LET wo == Head(orders)
             m == MetricValue(wo, metric_type, identifier)
             rest == MetricPoints(Tail(orders), metric_type, identifier)
         IN  IF m.matches /\ ~m.value.none
             THEN <<[date |-> ParseTimestamp(wo.upload_timestamp), value |-> m.value.value]>>
                  \o rest
             ELSE rest

\* sorted(data_points, key=date): stable, oldest first
RECURSIVE SortByDate(_)
InsertByDate(sorted, x) ==
    LET later == {i \in 1..Len(sorted) : sorted[i].date.age_days < x.date.age_days}
        k == IF later = {} THEN Len(sorted) + 1 ELSE CHOOSE i \in later : \A j \in later : i <= j
    IN  SubSeq(sorted, 1, k - 1) \o <<x>> \o SubSeq(sorted, k, Len(sorted))
SortByDate(s) ==
    IF s = <<>> THEN <<>> ELSE InsertByDate(SortByDate(SubSeq(s, 1, Len(s) - 1)), s[Len(s)])

\* comparing an offset-aware datetime with an offset-naive one raises TypeError
MixedDates(data_points) ==
    \E i, j \in 1..Len(data_points) : data_points[i].date.aware # data_points[j].date.aware

\* float(units_scrapped) raises TypeError on a null units_scrapped
MetricRaises(orders, metric_type, identifier) ==
    /\ metric_type = "scrap_rate"
    /\ \E i \in 1..Len(orders) :
          /\ MetricValue(orders[i], metric_type, identifier).matches
          /\ "units_scrapped" \notin DOMAIN orders[i]

\* _extract_metric_values: the sorted data points, or the exception it raises
extract_metric_values(orders, metric_type, identifier) ==
    LET data_points == MetricPoints(orders, metric_type, identifier)
    IN  IF MetricRaises(orders, metric_type, identifier) \/ MixedDates(data_points)
        THEN [raises |-> TRUE, data_points |-> <<>>]
        ELSE [raises |-> FALSE, data_points |-> SortByDate(data_points)]

\* detect_trend_start on the rows the query returned; datetime.now() is
\* offset-naive, and subtracting an offset-aware date from it raises TypeError;
\* every exception is caught and turned into None.  deviation_pct in tenths.
detect_trend_start(response, metric_type, identifier, current_value, baseline_avg, baseline_std) ==
    LET extracted == extract_metric_values(response, metric_type, identifier)
        data_points == extracted.data_points
        divergence_point == find_divergence_point(data_points, baseline_avg, baseline_std)
    IN  IF response = <<>> THEN None
        ELSE IF extracted.raises THEN None
        ELSE IF Len(data_points) < 2 THEN None
        ELSE IF divergence_point.none THEN None
        ELSE IF divergence_point.value.date.aware THEN None
        ELSE Some([start_date |-> IsoFormat(divergence_point.value.date),
                   days_ago |-> divergence_point.value.date.age_days,
                   deviation_pct |-> IF baseline_avg # 0
                                     THEN RoundDiv((current_value - baseline_avg) * 1000,
                                                   baseline_avg)
                                     ELSE 0,
                   baseline_avg |-> baseline_avg,
                   current_value |-> current_value])

\* round(a / b, ...) for a divisor of either sign
SignedRoundDiv(a, b) == IF b < 0 THEN RoundDiv(-a, -b) ELSE RoundDiv(a, b)

\* the general branch of calculate_deviation: deviation_pct in tenths of a
\* percent, multiplier in hundredths
DeviationFromBaseline(current_value, baseline_avg) ==
    [deviation_pct |-> SignedRoundDiv((current_value - baseline_avg) * 1000, baseline_avg),
     deviation_abs |-> current_value - baseline_avg,
     multiplier |-> SignedRoundDiv(current_value * 100, baseline_avg),
     direction |-> IF current_value > baseline_avg THEN "higher" ELSE "lower"]

\* calculate_deviation that reports a value above a zero baseline as 100% above
CalculateDeviationZeroAsFull(current_value, baseline_avg) ==
    IF baseline_avg = 0
    THEN [deviation_pct |-> IF current_value = 0 THEN 0 ELSE 1000,
          deviation_abs |-> current_value,
          multiplier |-> 0,
          direction |-> IF current_value > 0 THEN "higher" ELSE "lower"]
    ELSE DeviationFromBaseline(current_value, baseline_avg)

\* calculate_deviation
calculate_deviation(current_value, baseline_avg) ==
    IF baseline_avg = 0
    THEN [deviation_pct |-> 0,
          deviation_abs |-> current_value,
          multiplier |-> 0,
          direction |-> IF current_value > 0 THEN "higher" ELSE "lower"]
    ELSE DeviationFromBaseline(current_value, baseline_avg)

CurrentValues == {-250, -1, 0, 1, 37, 250}
DeviationBaselines == {-100, 0, 3, 100}

DeviationCalls ==
    \E x \in CurrentValues, avg \in DeviationBaselines :
        call = [fn |-> "calculate_deviation", current_value |-> x, baseline_avg |-> avg]

CalculateDeviation ==
    /\ call.fn = "calculate_deviation"
    /\ outcome = <<>>
    /\ outcome' = <<calculate_deviation(call.current_value, call.baseline_avg)>>
    /\ UNCHANGED <<call, scoreVars, runVars, baselineVars, concVars>>

-----------------------------------------------------------------------------
(* DegradationDetector (analytics/degradation_detector.py)                 *)

\* _calculate_trend on at least 2 values.  The averages are kept as the sums over
\* the first and the last `third` values: early_avg = early_sum / third,
\* recent_avg = recent_sum / third, slope = (recent_sum - early_sum) / (third * n).
calculate_trend(values) ==
    LET n == Len(values)
        third == Max(n \div 3, 1)
    IN  [n |-> n, third |-> third,
         early_sum |-> SumSeq(SubSeq(values, 1, third)),
         recent_sum |-> SumSeq(SubSeq(values, n - third + 1, n))]

\* trend['slope'] > 0, trend['slope'] < 0
SlopePositive(trend) == trend.recent_sum > trend.early_sum
SlopeNegative(trend) == trend.recent_sum < trend.early_sum

\* a trend that counts as significant from 0.3 on
SignificantFromThreshold(trend) ==
    /\ trend.early_sum > 0
    /\ 10 * Abs(trend.recent_sum - trend.early_sum) >= 3 * trend.early_sum

\* trend['slope_significance'] > 0.3, the significance being
\* abs(recent_avg - early_avg) / early_avg if early_avg > 0 else 0
Significant(trend) ==
    /\ trend.early_sum > 0
    /\ 10 * Abs(trend.recent_sum - trend.early_sum) > 3 * trend.early_sum

\* the threshold estimate that reports 0 once the threshold is reached
DaysToThresholdZeroWhenReached(trend) ==
    LET remaining == 2 * trend.early_sum - trend.recent_sum
    IN  IF SlopePositive(trend) /\ remaining > 0
        THEN Some((remaining * trend.n) \div (trend.recent_sum - trend.early_sum))
        ELSE Some(0)

\* days_to_threshold: int(remaining / slope) with remaining = early_avg * 2 -
\* recent_avg, only if slope > 0 and remaining > 0, else None
days_to_threshold(trend) ==
    LET remaining == 2 * trend.early_sum - trend.recent_sum
    IN  IF SlopePositive(trend) /\ remaining > 0
        THEN Some((remaining * trend.n) \div (trend.recent_sum - trend.early_sum))
        ELSE None

\* _generate_equipment_recommendation, by the sentence it picks
generate_equipment_recommendation(trend, days) ==
    LET change == trend.recent_sum - trend.early_sum
    IN  IF 100 * change > 30 * trend.early_sum THEN "critical"
        ELSE IF 100 * change > 15 * trend.early_sum
        THEN IF ~days.none /\ days.value # 0 /\ days.value < 14 THEN "schedule_within_days"
             ELSE "schedule_within_2_weeks"
        ELSE "monitor"

\* the rows of the response that give a data point: a truthy value under key
TruthyRows(response, key) == SelectSeq(response, LAMBDA wo : TruthyNum(wo, key))

ValuesOf(rows, key) == [i \in 1..Len(rows) |-> rows[i][key]]

\* detect_equipment_degradation on the rows the query returned.  degradation_pct
\* in tenths of a percent, the averages in hundredths, slope in 1/10000.
detect_equipment_degradation(response, equipment_id) ==
    LET data_points == TruthyRows(response, "actual_labor_hours")
        trend == calculate_trend(ValuesOf(data_points, "actual_labor_hours"))
        days == days_to_threshold(trend)
    IN  IF Len(response) < 5 THEN None
        ELSE IF Len(data_points) < 5 THEN None
        ELSE IF SlopePositive(trend) /\ Significant(trend)
        THEN Some([equipment_id |-> equipment_id,
                   status |-> "degrading",
                   degradation_pct |-> RoundDiv((trend.recent_sum - trend.early_sum) * 1000,
                                                trend.early_sum),
                   trend_direction |-> "worsening",
                   early_avg |-> RoundDiv(trend.early_sum * 100, trend.third),
                   recent_avg |-> RoundDiv(trend.recent_sum * 100, trend.third),
                   slope |-> RoundDiv((trend.recent_sum - trend.early_sum) * 10000,
                                      trend.third * trend.n),
                   data_points |-> Len(data_points),
                   days_to_threshold |-> days,
                   recommendation |-> generate_equipment_recommendation(trend, days)])
        ELSE None

\* _find_inflection_point: the index (from 1) of the point in the middle of the
\* window of 3 after the largest change of the moving average, the first point
\* if the average never changes.  The averages are floats (sum / 3): among
\* changes that are equal as exact numbers, rounding decides which one compares
\* as the largest, so each of them is a possible result.
MovingSum(values, i) == values[i] + values[i + 1] + values[i + 2]

AverageChange(values, i) == Abs(MovingSum(values, i) - MovingSum(values, i - 1))

InflectionCandidates(values) ==
    LET windows == 2..(Len(values) - 2)
        largest == {i \in windows :
                       \A j \in windows : AverageChange(values, i) >= AverageChange(values, j)}
    IN  IF \A i \in windows : AverageChange(values, i) = 0 THEN {1}
        ELSE {i + 1 : i \in largest}

find_inflection_point(data_points, inflection_idx) ==
    LET at == data_points[inflection_idx].upload_timestamp
    IN  [date |-> IsoFormat(ParseTimestamp(at)), days_ago |-> at.age_days]

\* _detect_supplier_change, _detect_equipment_pattern: more than one distinct
\* non-empty value among the data points
SeveralOf(data_points, key) ==
    Cardinality({data_points[i][key] :
                    i \in {j \in 1..Len(data_points) : TruthyStr(data_points[j], key)}}) > 1

\* _generate_cost_recommendation, by the sentence it picks
generate_cost_recommendation(trend, supplier_change) ==
    LET change == trend.recent_sum - trend.early_sum
    IN  IF supplier_change THEN "investigate_supplier"
        ELSE IF 100 * change > 20 * trend.early_sum THEN "pricing_review"
        ELSE IF 100 * change > 10 * trend.early_sum THEN "monitor"
        ELSE "track"

\* detect_cost_trend on the rows the query returned, inflection_idx being the
\* point _find_inflection_point settles on
detect_cost_trend(response, material_code, inflection_idx) ==
    LET data_points == TruthyRows(response, "actual_material_cost")
        values == ValuesOf(data_points, "actual_material_cost")
        trend == calculate_trend(values)
        inflection == find_inflection_point(data_points, inflection_idx)
        supplier_change == SeveralOf(data_points, "supplier_id")
    IN  IF Len(response) < 5 THEN None
        ELSE IF Len(data_points) < 5 THEN None
        ELSE IF (SlopePositive(trend) \/ SlopeNegative(trend)) /\ Significant(trend)
        THEN Some([material_code |-> material_code,
                   status |-> "trending",
                   trend_direction |-> IF SlopePositive(trend) THEN "increasing"
                                       ELSE "decreasing",
                   cost_change_pct |-> RoundDiv((trend.recent_sum - trend.early_sum) * 1000,
                                                trend.early_sum),
                   early_avg |-> RoundDiv(trend.early_sum * 100, trend.third),
                   recent_avg |-> RoundDiv(trend.recent_sum * 100, trend.third),
                   slope |-> RoundDiv((trend.recent_sum - trend.early_sum) * 10000,
                                      trend.third * trend.n),
                   data_points |-> Len(data_points),
                   inflection_date |-> inflection.date,
                   inflection_days_ago |-> inflection.days_ago,
                   supplier_correlation |-> supplier_change,
                   recommendation |-> generate_cost_recommendation(trend, supplier_change)])
        ELSE None

\* _generate_quality_recommendation, by the sentence it picks; drift in
\* hundredths of a point, summed over `third` values
generate_quality_recommendation(trend, supplier_change, equipment_change) ==
    IF supplier_change THEN "request_supplier_coa"
    ELSE IF equipment_change THEN "inspect_equipment"
    ELSE IF trend.recent_sum - trend.early_sum > 500 * trend.third THEN "investigate_root_cause"
    ELSE "monitor"

\* the orders detect_quality_drift makes a data point of
ProducedRows(response) == SelectSeq(response, LAMBDA wo : UnitsProduced(wo) > 0)

\* the data point detect_quality_drift makes of an order that has one
QualityPoint(wo) ==
    [scrap_rate |-> ScrapValue(wo), upload_timestamp |-> wo.upload_timestamp]
    @@ (IF TruthyStr(wo, "supplier_id") THEN [supplier_id |-> wo.supplier_id] ELSE <<>>)
    @@ (IF HasEquipment(wo) THEN [equipment_id |-> EquipmentKey(wo)] ELSE <<>>)

\* detect_quality_drift on the rows the query returned; float(units_scrapped)
\* raises on a null units_scrapped of an order with units produced, and the
\* exception is caught and turned into None.  Scrap rates in hundredths.
detect_quality_drift(response, material_code, inflection_idx) ==
    LET produced == ProducedRows(response)
        raises == \E i \in 1..Len(produced) : "units_scrapped" \notin DOMAIN produced[i]
        data_points == [i \in 1..Len(produced) |-> QualityPoint(produced[i])]
        values == ValuesOf(data_points, "scrap_rate")
        trend == calculate_trend(values)
        inflection == find_inflection_point(data_points, inflection_idx)
        supplier_change == SeveralOf(data_points, "supplier_id")
        equipment_change == SeveralOf(data_points, "equipment_id")
    IN  IF Len(response) < 5 THEN None
        ELSE IF raises THEN None
        ELSE IF Len(data_points) < 5 THEN None
        ELSE IF SlopePositive(trend) /\ Significant(trend)
        THEN Some([material_code |-> material_code,
                   status |-> "drifting",
                   drift_direction |-> "worsening",
                   early_scrap_rate |-> RoundDiv(trend.early_sum, trend.third),
                   recent_scrap_rate |-> RoundDiv(trend.recent_sum, trend.third),
                   drift_pct |-> RoundDiv(trend.recent_sum - trend.early_sum, trend.third),
                   multiplier |-> RoundDiv(trend.recent_sum * 100, trend.early_sum),
                   data_points |-> Len(data_points),
                   inflection_date |-> inflection.date,
                   inflection_days_ago |-> inflection.days_ago,
                   supplier_correlation |-> supplier_change,
                   equipment_correlation |-> equipment_change,
                   recommendation |-> generate_quality_recommendation(
                                          trend, supplier_change, equipment_change)])
        ELSE None

\* ---- the rows the three detectors read: up to MaxSeries orders two days
\* apart, oldest first, timestamps as the store writes them
MaxSeries == 6
HourValues == {0, 10, 13, 20}
ScrapValues == {0, 10, 14}
SupplierSplits == {0, 3}

StoreTimestamp(i, n) == [age_days |-> 2 * (n - i) + 1, tz |-> "+00:00"]

\* the supplier of row i when the supplier changes after `split` rows (0: never)
SupplierAt(i, split) == IF split > 0 /\ i > split THEN "SUP-2" ELSE "SUP-1"

EquipmentCalls ==
    \E n \in 0..MaxSeries : \E hours \in [1..n -> HourValues] :
        call = [fn |-> "detect_equipment_degradation", equipment_id |-> "EQ-1",
                response |-> [i \in 1..n |-> [actual_labor_hours |-> hours[i],
                                              upload_timestamp |-> StoreTimestamp(i, n),
                                              work_order_number |-> i]]]

CostTrendCalls ==
    \E n \in 0..MaxSeries : \E costs \in [1..n -> HourValues] : \E split \in SupplierSplits :
        call = [fn |-> "detect_cost_trend", material_code |-> "MAT-A",
                response |-> [i \in 1..n |-> [actual_material_cost |-> costs[i],
                                              upload_timestamp |-> StoreTimestamp(i, n),
                                              supplier_id |-> SupplierAt(i, split),
                                              work_order_number |-> i]]]

\* an order with 100 units produced and `scrapped` of them scrapped; -1 stands
\* for an order with nothing produced, -2 for a null units_scrapped
QualityRow(scrapped, i, n, split) ==
    [units_produced |-> IF scrapped = -1 THEN 0 ELSE 100,
     upload_timestamp |-> StoreTimestamp(i, n),
     supplier_id |-> SupplierAt(i, split),
     equipment_id |-> "EQ-1"]
    @@ (IF scrapped = -2 THEN <<>> ELSE [units_scrapped |-> Max(scrapped, 0)])

QualityCalls ==
    \E n \in 0..MaxSeries : \E scrapped \in [1..n -> ScrapValues \cup {-1}] :
        \E split \in SupplierSplits, null_at \in {0, 2} :
            call = [fn |-> "detect_quality_drift", material_code |-> "MAT-A",
                    response |-> [i \in 1..n |->
                                     QualityRow(IF i = null_at THEN -2 ELSE scrapped[i],
                                                i, n, split)]]

DetectEquipmentDegradation ==
    /\ call.fn = "detect_equipment_degradation"
    /\ outcome = <<>>
    /\ outcome' = <<detect_equipment_degradation(call.response, call.equipment_id)>>
    /\ UNCHANGED <<call, scoreVars, runVars, baselineVars, concVars>>

DetectCostTrend ==
    /\ call.fn = "detect_cost_trend"
    /\ outcome = <<>>
    /\ \E inflection_idx \in InflectionCandidates(
                                 ValuesOf(TruthyRows(call.response, "actual_material_cost"),
                                          "actual_material_cost")) :
          outcome' = <<detect_cost_trend(call.response, call.material_code, inflection_idx)>>
    /\ UNCHANGED <<call, scoreVars, runVars, baselineVars, concVars>>

DetectQualityDrift ==
    /\ call.fn = "detect_quality_drift"
    /\ outcome = <<>>
    /\ \E inflection_idx \in InflectionCandidates(
                                 [i \in 1..Len(ProducedRows(call.response)) |->
                                     ScrapValue(ProducedRows(call.response)[i])]) :
          outcome' = <<detect_quality_drift(call.response, call.material_code,
                                            inflection_idx)>>
    /\ UNCHANGED <<call, scoreVars, runVars, baselineVars, concVars>>

-----------------------------------------------------------------------------
\* ---- the series _find_divergence_point is called on: up to MaxPoints points a
\* day apart, around a baseline of 100 with a std of 10 or of 0
MaxPoints == 5
SeriesValues == {100, 120, 130, 60}
BaselineAvgs == {100}
BaselineStds == {0, 10, 20}

SeriesOf(values) == [i \in 1..Len(values) |-> [date |-> i, value |-> values[i]]]

DivergenceCalls ==
    \E n \in 0..MaxPoints : \E values \in [1..n -> SeriesValues] :
        \E avg \in BaselineAvgs, std \in BaselineStds :
            call = [fn |-> "find_divergence_point", data_points |-> SeriesOf(values),
                    baseline_avg |-> avg, baseline_std |-> std]

\* ---- the rows detect_trend_start reads: up to MaxRows orders two days apart,
\* oldest first, each of the material asked for (cost in or out of threshold, or
\* null) or of another one, its timestamp written with or without a designator
MaxRows == 4
Designators == {"Z", "+00:00"}
RowKinds == {<<"in", FALSE>>, <<"out", FALSE>>, <<"in", TRUE>>, <<"out", TRUE>>,
             <<"null", FALSE>>, <<"other", FALSE>>}

TrendRow(kind, tz, age) ==
    [upload_timestamp |-> [age_days |-> age, tz |-> tz],
     material_code |-> IF kind = "other" THEN "MAT-B" ELSE "MAT-A"]
    @@ (IF kind = "null" THEN <<>>
        ELSE [actual_material_cost |-> IF kind = "in" THEN 100 ELSE 130])

TrendStartCalls ==
    \E n \in 0..MaxRows : \E kinds \in [1..n -> RowKinds] :
        \E tz \in Designators, std \in {0, 10} :
            call = [fn |-> "detect_trend_start",
                    response |-> [i \in 1..n |->
                                     TrendRow(kinds[i][1], IF kinds[i][2] THEN tz ELSE "",
                                              2 * (n - i) + 1)],
                    metric_type |-> "material_cost", identifier |-> "MAT-A",
                    current_value |-> 130, baseline_avg |-> 100, baseline_std |-> std]

DetectTrendStart ==
    /\ call.fn = "detect_trend_start"
    /\ outcome = <<>>
    /\ outcome' = <<detect_trend_start(call.response, call.metric_type, call.identifier,
                                       call.current_value, call.baseline_avg,
                                       call.baseline_std)>>
    /\ UNCHANGED <<call, scoreVars, runVars, baselineVars, concVars>>

FindDivergencePoint ==
    /\ call.fn = "find_divergence_point"
    /\ outcome = <<>>
    /\ outcome' = <<find_divergence_point(call.data_points, call.baseline_avg,
                                          call.baseline_std)>>
    /\ UNCHANGED <<call, scoreVars, runVars, baselineVars, concVars>>

\* ---- update_baselines runs that overlap: the tracker takes no lock and opens
\* no transaction, so between the query of one run and each of its upserts the
\* steps of another run (another worker process on the same store) and uploads
\* may happen

\* the number of overlapping runs
NumRuns == 2
Runs == 1..NumRuns

IdleRun == [pc |-> "idle", facility_id |-> 0, attempts |-> <<>>, next |-> 1]

\* lines 21-31 and the four group loops: the run queries its window and holds, in
\* its local dicts, the baselines it is going to upsert
BeginUpdate(p) ==
    /\ runs[p].pc = "idle"
    /\ \E facility_id \in Facilities :
          LET attempts == baseline_upserts(WindowRows(work_orders, facility_id), facility_id)
          IN  runs' = [runs EXCEPT ![p] = [pc          |-> IF attempts = <<>> THEN "done"
                                                          ELSE "writing",
                                           facility_id |-> facility_id,
                                           attempts    |-> attempts,
                                           next        |-> 1]]
    /\ clock' = clock + 1
    /\ UNCHANGED <<work_orders, facility_baselines, upsert_log, updates, scoreVars, runVars,
                   detectVars>>

\* one _upsert_baseline call of the run
UpsertNext(p) ==
    /\ runs[p].pc = "writing"
    /\ LET u == runs[p].attempts[runs[p].next]
       IN  /\ facility_baselines' = upsert_all(facility_baselines, <<u>>, {}, clock)
           /\ upsert_log' = Append(upsert_log, [key |-> BaselineKey(u), failed |-> FALSE])
    /\ runs' = [runs EXCEPT ![p].next = @ + 1,
                            ![p].pc = IF runs[p].next = Len(runs[p].attempts) THEN "done"
                                      ELSE "writing"]
    /\ UNCHANGED <<work_orders, updates, clock, scoreVars, runVars, detectVars>>

\* an upload while no run, one run or several runs are under way
UploadDuring ==
    /\ Len(work_orders) < MaxOverlapOrders
    /\ \E i \in OverlapRows : work_orders' = Append(work_orders, OrderPalette[i])
    /\ UNCHANGED <<facility_baselines, upsert_log, updates, clock, scoreVars, runVars,
                   concVars, detectVars>>

InitOverlap ==
    /\ ScoreIdle
    /\ RunIdle
    /\ NoCall
    /\ work_orders = <<>>
    /\ BaselineEmpty
    /\ runs = [p \in Runs |-> IdleRun]

NextOverlap ==
    \/ \E p \in Runs : BeginUpdate(p)
    \/ \E p \in Runs : UpsertNext(p)
    \/ UploadDuring

SpecOverlap == InitOverlap /\ [][NextOverlap]_vars

\* ---- the members _aggregate_trends is called on: up to MaxMembers insights,
\* each without a trend, with a trend without a status, or with one of the
\* three statuses
MaxMembers == 3
MemberTrends ==
    {<<>>, [trend |-> EmptyMap], [trend |-> [status |-> "STABLE"]],
     [trend |-> [status |-> "DECELERATING"]], [trend |-> [status |-> "ACCELERATING"]]}

TrendCalls ==
    \E n \in 0..MaxMembers : \E trends \in [1..n -> MemberTrends] :
        call = [fn |-> "aggregate_trends",
                insights |-> [i \in 1..n |->
                                 [insight_type |-> "pattern",
                                  insight_data |-> [type |-> "material", identifier |-> i]
                                                   @@ trends[i]]]]

AggregateTrends ==
    /\ call.fn = "aggregate_trends"
    /\ outcome = <<>>
    /\ outcome' = <<aggregate_trends(call.insights)>>
    /\ UNCHANGED <<call, scoreVars, runVars, baselineVars, concVars>>

\* one call of one detector function on one input
DetectCalls ==
    \/ DivergenceCalls
    \/ TrendStartCalls
    \/ DeviationCalls
    \/ EquipmentCalls
    \/ CostTrendCalls
    \/ QualityCalls
    \/ TrendCalls

InitDetect ==
    /\ ScoreIdle
    /\ RunIdle
    /\ work_orders = <<>>
    /\ BaselineEmpty
    /\ NoRuns
    /\ DetectCalls
    /\ outcome = <<>>

NextDetect ==
    \/ FindDivergencePoint
    \/ DetectTrendStart
    \/ CalculateDeviation
    \/ DetectEquipmentDegradation
    \/ DetectCostTrend
    \/ DetectQualityDrift
    \/ AggregateTrends

SpecDetect == InitDetect /\ [][NextDetect]_vars

-----------------------------------------------------------------------------
(* CorrelationAnalyzer (analytics/correlation_analyzer.py)                 *)
(* A window is the list of work_orders rows a query returned, oldest       *)
(* first.  A null column is a key missing from the row.  A correlation is  *)
(* the dict a detector returns; its description is the tuple of the parts  *)
(* the f-string joins.                                                     *)

\* wo.get('supplier_id'): "" stands for None (both are falsy)
SupplierOf(wo) == Get(wo, "supplier_id", "")

\* (datetime.now() - date.replace(tzinfo=None)).days: the offset is dropped,
\* the wall-clock reading is compared with now
DaysAgo(date) == date.age_days

\* the loop of _detect_supplier_change_timing from order i on: the changes it
\* appends; prev_supplier is overwritten by every order, one without a
\* supplier included
RECURSIVE SupplierChanges(_, _, _)
SupplierChanges(orders, i, prev_supplier) ==
    IF i > Len(orders) THEN <<>>
    ELSE LET wo == orders[i]
             current_supplier == SupplierOf(wo)
             change == [date          |-> ParseTimestamp(wo.upload_timestamp),
                        from_supplier |-> prev_supplier,
                        to_supplier   |-> current_supplier]
         IN  (IF current_supplier # "" /\ prev_supplier # ""
                 /\ current_supplier # prev_supplier
              THEN <<change>> ELSE <<>>)
             \o SupplierChanges(orders, i + 1, current_supplier)

\* the distance of days_ago from which the strength is no longer 'high', and
\* the days_ago it is measured from
StrengthWindowDays == 5
StrengthCentreDays == 7

detect_supplier_change_timing(orders, inflection_date) ==
    LET suppliers == {SupplierOf(orders[i]) : i \in 1..Len(orders)} \ {""}
        changes == SupplierChanges(orders, 1, "")
        latest_change == changes[Len(changes)]
        days_ago == DaysAgo(latest_change.date)
    IN  IF Cardinality(suppliers) < 2 THEN None
        ELSE IF changes # <<>>
        THEN Some([type        |-> "supplier_change",
                   description |-> <<"Supplier changed", latest_change.from_supplier,
                                     latest_change.to_supplier>>,
                   date        |-> IsoFormat(latest_change.date),
                   days_ago    |-> days_ago,
                   correlation_strength |->
                       IF ~inflection_date.none
                          /\ Abs(days_ago - StrengthCentreDays) < StrengthWindowDays
                       THEN "high" ELSE "medium"])
        ELSE None

\* _detect_batch_change
detect_batch_change(orders) ==
    LET batches == {Get(orders[i], "batch_id", "") : i \in 1..Len(orders)} \ {""}
    IN  IF Cardinality(batches) < 2 THEN None
        ELSE Some([type        |-> "batch_change",
                   description |-> <<"Material batch changed", Cardinality(batches)>>,
                   correlation_strength |-> "medium"])

\* a single step counts as a jump, a change between halves or groups as a
\* shift, above this many percent
JumpPct == 20

\* abs(((curr - prev) / prev) * 100) > 20, for prev > 0
ChangedOver(prev, curr, pct) == 100 * Abs(curr - prev) > pct * prev

\* the first step i of costs (from i on) that is a jump, 0 if there is none
RECURSIVE FirstJump(_, _)
FirstJump(costs, i) ==
    IF i > Len(costs) THEN 0
    ELSE IF costs[i - 1].cost > 0 /\ ChangedOver(costs[i - 1].cost, costs[i].cost, JumpPct)
    THEN i
    ELSE FirstJump(costs, i + 1)

\* _detect_sudden_price_change; the percentage of the description is in tenths
detect_sudden_price_change(orders) ==
    LET priced == SelectSeq(orders, LAMBDA wo : TruthyNum(wo, "actual_material_cost"))
        costs == [i \in 1..Len(priced) |-> [cost |-> priced[i].actual_material_cost,
                                            date |-> priced[i].upload_timestamp]]
        i == FirstJump(costs, 2)
        date == ParseTimestamp(costs[i].date)
    IN  IF Len(costs) < 2 \/ i = 0 THEN None
        ELSE Some([type        |-> "price_jump",
                   description |-> <<"Price jumped",
                                     SignedRoundDiv((costs[i].cost - costs[i - 1].cost) * 1000,
                                                    costs[i - 1].cost)>>,
                   date        |-> IsoFormat(date),
                   days_ago    |-> DaysAgo(date),
                   correlation_strength |-> "high"])

\* the orders _detect_equipment_quality_pattern takes a scrap rate from
RatedOrder(wo) == HasEquipment(wo) /\ UnitsProduced(wo) > 0

\* the keys of equipment_scrap in insertion order
RECURSIVE EquipmentSeen(_, _)
EquipmentSeen(orders, seen) ==
    IF orders = <<>> THEN seen
    ELSE LET wo == Head(orders)
             known == \E k \in 1..Len(seen) : seen[k] = EquipmentKey(wo)
         IN  EquipmentSeen(Tail(orders),
                           IF RatedOrder(wo) /\ ~known THEN Append(seen, EquipmentKey(wo))
                           ELSE seen)

\* sum and number of the scrap rates (hundredths of a percent) of one equipment
ScrapRates(orders, equipment) ==
    LET of == SelectSeq(orders, LAMBDA wo : RatedOrder(wo) /\ EquipmentKey(wo) = equipment)
    IN  [sum |-> SumSeq(MapSeq(of, ScrapValue)), count |-> Len(of)]

\* a.sum / a.count > factor10 / 10 * (b.sum / b.count)
AverageOver(a, b, factor10) == 10 * a.sum * b.count > factor10 * b.sum * a.count

\* max(avg_rates, key=avg_rates.get) and min(...): the first key, in insertion
\* order, whose average no other key's exceeds (resp. falls below)
FirstExtreme(keys, rates(_), largest) ==
    LET better(a, b) == IF largest THEN AverageOver(rates(a), rates(b), 10)
                        ELSE AverageOver(rates(b), rates(a), 10)
        k == CHOOSE k \in 1..Len(keys) :
                 /\ \A j \in 1..Len(keys) : ~better(keys[j], keys[k])
                 /\ \A j \in 1..(k - 1) : better(keys[k], keys[j])
    IN  keys[k]

\* the factor by which the worst equipment must exceed the best, in tenths
EquipmentFactor10 == 20

\* _detect_equipment_quality_pattern: float(units_scrapped) raises on a null
\* units_scrapped of an order that has equipment and units produced
detect_equipment_quality_pattern(orders) ==
    LET equipment_scrap == EquipmentSeen(orders, <<>>)
        rates(eq) == ScrapRates(orders, eq)
        max_eq == FirstExtreme(equipment_scrap, rates, TRUE)
        min_eq == FirstExtreme(equipment_scrap, rates, FALSE)
    IN  IF \E i \in 1..Len(orders) :
               RatedOrder(orders[i]) /\ "units_scrapped" \notin DOMAIN orders[i]
        THEN [raises |-> TRUE]
        ELSE IF Len(equipment_scrap) > 1
                /\ AverageOver(rates(max_eq), rates(min_eq), EquipmentFactor10)
        THEN Some([type        |-> "equipment_pattern",
                   description |-> <<max_eq, RoundDiv(rates(max_eq).sum,
                                                      rates(max_eq).count * 10),
                                     min_eq, RoundDiv(rates(min_eq).sum,
                                                      rates(min_eq).count * 10)>>,
                   correlation_strength |-> "high"])
        ELSE None

\* the fewest orders _detect_usage_pattern_change looks at
UsageMinOrders == 10

\* sum(float(hours) for wo in half if hours)
HoursSum(half) == SumSeq([i \in 1..Len(half) |-> Get(half[i], "actual_labor_hours", 0)])

\* _detect_usage_pattern_change; the percentage of the description is in tenths
detect_usage_pattern_change(orders) ==
    LET mid == Len(orders) \div 2
        first_half == SubSeq(orders, 1, mid)
        second_half == SubSeq(orders, mid + 1, Len(orders))
        \* first_avg = first / Len(first_half), second_avg = second / Len(second_half)
        first == HoursSum(first_half) * Len(second_half)
        second == HoursSum(second_half) * Len(first_half)
    IN  IF Len(orders) < UsageMinOrders THEN None
        ELSE IF first > 0 /\ ChangedOver(first, second, JumpPct)
        THEN Some([type        |-> "usage_intensity",
                   description |-> <<IF second > first THEN "increased" ELSE "decreased",
                                     RoundDiv(Abs(second - first) * 1000, first)>>,
                   correlation_strength |-> "medium"])
        ELSE None

\* the orders _detect_shift_pattern groups
ShiftOrder(wo) == TruthyStr(wo, "shift") /\ TruthyNum(wo, "actual_labor_hours")

\* sum and number of the hours of one shift
ShiftHours(orders, shift) ==
    LET of == SelectSeq(orders, LAMBDA wo : ShiftOrder(wo) /\ wo.shift = shift)
    IN  [sum |-> HoursSum(of), count |-> Len(of)]

\* the factor by which the slowest shift must exceed the fastest, in tenths
ShiftFactor10 == 13

\* _detect_shift_pattern: max(values) > min(values) * 1.3
detect_shift_pattern(orders) ==
    LET shifts == {orders[i].shift : i \in {k \in 1..Len(orders) : ShiftOrder(orders[k])}}
        hours(s) == ShiftHours(orders, s)
        largest == CHOOSE s \in shifts : \A t \in shifts : ~AverageOver(hours(t), hours(s), 10)
        smallest == CHOOSE s \in shifts : \A t \in shifts : ~AverageOver(hours(s), hours(t), 10)
    IN  IF Cardinality(shifts) > 1
           /\ AverageOver(hours(largest), hours(smallest), ShiftFactor10)
        THEN Some([type        |-> "shift_pattern",
                   description |-> <<"Performance varies by shift">>,
                   correlation_strength |-> "medium"])
        ELSE None

\* the fewest rows a find_*_correlations call looks at
MinWindow == 5

\* correlations.append(x) if the detector returned a finding
Found(finding) == IF finding.none THEN <<>> ELSE <<finding.value>>

\* find_cost_correlations with the price-jump pass run first
FindCostCorrelationsJumpFirst(response, inflection_date) ==
    IF Len(response) < MinWindow THEN <<>>
    ELSE Found(detect_sudden_price_change(response))
         \o Found(detect_supplier_change_timing(response, inflection_date))
         \o Found(detect_batch_change(response))

\* find_cost_correlations on the rows its query returned
find_cost_correlations(response, inflection_date) ==
    IF Len(response) < MinWindow THEN <<>>
    ELSE Found(detect_supplier_change_timing(response, inflection_date))
         \o Found(detect_batch_change(response))
         \o Found(detect_sudden_price_change(response))

\* find_quality_correlations: an exception of the equipment pass is caught and
\* the correlations appended so far are returned
find_quality_correlations(response, inflection_date) ==
    LET supplier_change == detect_supplier_change_timing(response, inflection_date)
        equipment_pattern == detect_equipment_quality_pattern(response)
    IN  IF Len(response) < MinWindow THEN <<>>
        ELSE (IF supplier_change.none THEN <<>>
              ELSE <<supplier_change.value @@ [quality_related |-> TRUE]>>)
             \o (IF "raises" \in DOMAIN equipment_pattern THEN <<>>
                 ELSE Found(equipment_pattern))

\* find_equipment_correlations
find_equipment_correlations(response) ==
    IF Len(response) < MinWindow THEN <<>>
    ELSE Found(detect_usage_pattern_change(response))
         \o Found(detect_shift_pattern(response))

\* Inputs of the correlation passes: windows of at most MaxWindow rows (the
\* usage pass needs longer ones, up to MaxUsageWindow), oldest first
MaxWindow == 5
MaxUsageWindow == 10
WindowSuppliers == {"", "SUP-1", "SUP-2"}
Spacings == {1, 3}
CostValues == {0, 10, 13}
BatchSplits == {0, 2}
ScrapCounts == {2, 10}

\* the timestamp of row i of n when consecutive rows are `spacing` days apart
WindowTimestamp(i, n, spacing) == [age_days |-> spacing * (n - i) + 1, tz |-> "+00:00"]

\* cost_trend.get('inflection_date'): none, or the timestamp of an order
InflectionDates == {None, Some([age_days |-> 2, tz |-> "+00:00"]),
                    Some([age_days |-> 9, tz |-> "+00:00"])}

\* a row with the column only if the value is not null ("" and 0 stand for null)
TextColumn(k, v) == IF v = "" THEN <<>> ELSE (k :> v)
NumberColumn(k, v) == IF v = 0 THEN <<>> ELSE (k :> v)

SupplierChangeCalls ==
    \E n \in 0..MaxWindow : \E suppliers \in [1..n -> WindowSuppliers] :
        \E spacing \in Spacings, inflection_date \in InflectionDates :
            call = [fn |-> "detect_supplier_change_timing",
                    inflection_date |-> inflection_date,
                    work_orders |-> [i \in 1..n |->
                                        [upload_timestamp |-> WindowTimestamp(i, n, spacing)]
                                        @@ TextColumn("supplier_id", suppliers[i])]]

CostCorrelationCalls ==
    \E n \in 0..MaxWindow : \E costs \in [1..n -> CostValues] :
        \E split \in SupplierSplits, batch_split \in BatchSplits,
           inflection_date \in InflectionDates :
            call = [fn |-> "find_cost_correlations", material_code |-> "MAT-A",
                    inflection_date |-> inflection_date,
                    response |-> [i \in 1..n |->
                                     [upload_timestamp |-> WindowTimestamp(i, n, 2),
                                      supplier_id |-> SupplierAt(i, split),
                                      batch_id |-> IF batch_split > 0 /\ i > batch_split
                                                   THEN "B-2" ELSE "B-1"]
                                     @@ NumberColumn("actual_material_cost", costs[i])]]

\* an order with 100 units produced on one of `machines` machines in turn;
\* the order at null_at has a null units_scrapped
QualityCorrelationCalls ==
    \E n \in 0..MaxWindow : \E scrapped \in [1..n -> ScrapCounts] :
        \E split \in SupplierSplits, machines \in {1, 2}, null_at \in {0, 2},
           inflection_date \in InflectionDates :
            call = [fn |-> "find_quality_correlations", material_code |-> "MAT-A",
                    inflection_date |-> inflection_date,
                    response |-> [i \in 1..n |->
                                     [upload_timestamp |-> WindowTimestamp(i, n, 2),
                                      supplier_id |-> SupplierAt(i, split),
                                      equipment_id |-> IF i % machines = 0 THEN "EQ-1"
                                                       ELSE "EQ-2",
                                      units_produced |-> 100]
                                     @@ (IF i = null_at THEN <<>>
                                         ELSE [units_scrapped |-> scrapped[i]])]]

\* orders of one equipment: `before` hours each up to order change_at, `after`
\* hours each from then on, worked by one shift, by two in turn, or by none
EquipmentCorrelationCalls ==
    \E n \in 0..MaxUsageWindow : \E before \in HourValues, after \in HourValues :
        \E change_at \in {3, 5}, shifts \in 0..2 :
            call = [fn |-> "find_equipment_correlations", equipment_id |-> "EQ-1",
                    response |-> [i \in 1..n |->
                                     [upload_timestamp |-> WindowTimestamp(i, n, 1)]
                                     @@ NumberColumn("actual_labor_hours",
                                               IF i <= change_at THEN before ELSE after)
                                     @@ TextColumn("shift", IF shifts = 0 THEN ""
                                                        ELSE IF i % shifts = 0 THEN "day"
                                                        ELSE "night")]]

DetectSupplierChangeTiming ==
    /\ call.fn = "detect_supplier_change_timing"
    /\ outcome = <<>>
    /\ outcome' = <<detect_supplier_change_timing(call.work_orders, call.inflection_date)>>
    /\ UNCHANGED <<call, scoreVars, runVars, baselineVars, concVars>>

FindCostCorrelations ==
    /\ call.fn = "find_cost_correlations"
    /\ outcome = <<>>
    /\ outcome' = <<find_cost_correlations(call.response, call.inflection_date)>>
    /\ UNCHANGED <<call, scoreVars, runVars, baselineVars, concVars>>

FindQualityCorrelations ==
    /\ call.fn = "find_quality_correlations"
    /\ outcome = <<>>
    /\ outcome' = <<find_quality_correlations(call.response, call.inflection_date)>>
    /\ UNCHANGED <<call, scoreVars, runVars, baselineVars, concVars>>

FindEquipmentCorrelations ==
    /\ call.fn = "find_equipment_correlations"
    /\ outcome = <<>>
    /\ outcome' = <<find_equipment_correlations(call.response)>>
    /\ UNCHANGED <<call, scoreVars, runVars, baselineVars, concVars>>

\* `if correlations: finding['correlations'] = correlations` of the three
\* analyzers: the list is attached as returned
attach_correlations(finding, correlations) ==
    IF correlations # <<>> THEN finding @@ [correlations |-> correlations] ELSE finding

\* the finding an analyzer attaches the correlations of a call to, as the
\* insight the prioritizer extracts from it
CorrelatedInsight(c, correlations) ==
    IF c.fn = "find_cost_correlations"
    THEN cost_pattern_insight(attach_correlations(
             [type |-> "material", identifier |-> c.material_code,
              order_count |-> Len(c.response), total_impact |-> 1200], correlations))
    ELSE IF c.fn = "find_quality_correlations"
    THEN quality_insight(attach_correlations(
             [material_code |-> c.material_code, estimated_cost_impact |-> 600],
             correlations))
    ELSE equipment_insight(attach_correlations(
             [equipment_id |-> c.equipment_id, failure_probability |-> 4000,
              estimated_downtime_cost |-> 600], correlations))

\* the way of the returned list into the feed: attached to the analyzer's
\* finding, extracted, scored, bucketed and formatted
FormatCorrelatedInsight ==
    /\ call.fn \in {"find_cost_correlations", "find_quality_correlations",
                    "find_equipment_correlations"}
    /\ Len(outcome) = 1
    /\ \E level \in {"urgent", "notable", "background"} :
          outcome' = Append(outcome,
                            format_insight(SetLevel(
                                <<score_insight(CorrelatedInsight(call, outcome[1]))>>,
                                level)[1]))
    /\ UNCHANGED <<call, scoreVars, runVars, baselineVars, concVars>>

\* one call of one correlation pass on one window
CorrelationCalls ==
    \/ SupplierChangeCalls
    \/ CostCorrelationCalls
    \/ QualityCorrelationCalls
    \/ EquipmentCorrelationCalls

InitCorrelate ==
    /\ ScoreIdle
    /\ RunIdle
    /\ work_orders = <<>>
    /\ BaselineEmpty
    /\ NoRuns
    /\ CorrelationCalls
    /\ outcome = <<>>

NextCorrelate ==
    \/ DetectSupplierChangeTiming
    \/ FindCostCorrelations
    \/ FindQualityCorrelations
    \/ FindEquipmentCorrelations
    \/ FormatCorrelatedInsight

SpecCorrelate == InitCorrelate /\ [][NextCorrelate]_vars

-----------------------------------------------------------------------------
(* InsightPrioritizer._generate_narrative and the feed with its narratives *)
(* The text of a narrative is not modelled: a narrative the recommender    *)
(* returns is the record of what it was asked for.                         *)

\* `'scrap' in str(data).lower()`: the data names a scrap column
MentionsScrap(data) ==
    \E k \in DOMAIN data : k \in {"scrap_rate", "scrap_rate_per_order", "units_scrapped"}

\* the insight_type _generate_narrative hands to the recommender
NarrativeType(scored_insight) ==
    LET data == scored_insight.insight_data
        analysis == Get(data, "analysis", EmptyMap)
        primary_driver == Get(Get(analysis, "variance_breakdown", EmptyMap),
                              "primary_driver", "cost")
    IN  IF scored_insight.insight_type = "equipment_failure_risk"
           \/ scored_insight.source_analyzer = "equipment_predictor"
        THEN "equipment"
        ELSE IF scored_insight.insight_type = "quality_issue" \/ MentionsScrap(data) THEN "quality"
        ELSE IF scored_insight.insight_type = "pattern" /\ Get(data, "type", "none") = "material"
        THEN "material"
        ELSE IF scored_insight.insight_type = "prediction" /\ scored_insight.source_analyzer = "cost_analyzer"
        THEN (IF analysis # EmptyMap
              THEN (IF primary_driver = "material" THEN "material" ELSE "cost_prediction")
              ELSE "material")
        ELSE scored_insight.insight_type

\* the dict of the except branch of _generate_narrative
fallback_narrative(scored_insight) ==
    [headline           |-> <<Get(scored_insight.insight_data, "identifier", "Unknown"),
                              "requires attention">>,
     what_happening     |-> "Analysis detected an issue",
     why_matters        |-> <<"Financial impact", Get(scored_insight.insight_data,
                                                      "financial_impact", 0)>>,
     recommended_action |-> "Review and take corrective action",
     urgency_level      |-> "medium",
     financial_impact   |-> Get(scored_insight.insight_data, "financial_impact", 0)]

\* _generate_narrative without its except branch taking effect: the narrative
\* asked for, whether or not the recommender raised
GenerateNarrativeNoFallback(scored_insight, raises) ==
    [generated_by |-> "generate_consultant_narrative",
     insight_type |-> NarrativeType(scored_insight),
     identifier   |-> Get(scored_insight.insight_data, "identifier", "Unknown")]

\* _generate_narrative; raises: generate_consultant_narrative raises
generate_narrative(scored_insight, raises) ==
    IF raises THEN fallback_narrative(scored_insight)
    ELSE [generated_by |-> "generate_consultant_narrative",
          insight_type |-> NarrativeType(scored_insight),
          identifier   |-> Get(scored_insight.insight_data, "identifier", "Unknown")]

\* format_insight with its narrative
format_narrated_insight(scored_insight, raises) ==
    format_insight(scored_insight) @@ [narrative |-> generate_narrative(scored_insight, raises)]

\* format_prioritized_feed when the recommender raises for the insights whose
\* oid is in failing
format_narrated_feed(p, failing) ==
    LET Narrated(bucket) == [i \in 1..Len(bucket) |->
                                format_narrated_insight(bucket[i], bucket[i].oid \in failing)]
    IN  [urgent     |-> Narrated(p.urgent),
         notable    |-> Narrated(p.notable),
         background |-> Narrated(p.background),
         summary    |-> format_prioritized_feed(p).summary]

\* the insights for which the recommender raises: none, any single one, or all
NarrativeFailures(p) ==
    LET oids == 1..p.total_insights
    IN  {{}, oids} \cup {{o} : o \in oids}

\* the fault recorded when the narrative of the insight with this oid failed
NarrativeFault(oid) ==
    <<"narrative-1", "narrative-2", "narrative-3", "narrative-4", "narrative-5", "narrative-6",
      "narrative-7", "narrative-8", "narrative-9", "narrative-10", "narrative-11",
      "narrative-12", "narrative-13", "narrative-14", "narrative-15", "narrative-16",
      "narrative-17", "narrative-18", "narrative-19", "narrative-20", "narrative-21",
      "narrative-22", "narrative-23", "narrative-24">>[oid]

\* Step 6 with the narratives: prioritizer.format_prioritized_feed(prioritized)
\* and the return
FormatNarratedFeed ==
    /\ pc = "format"
    /\ \/ \E failing \in NarrativeFailures(prioritized) :
             /\ feed' = format_narrated_feed(prioritized, failing)
             /\ result' = <<success_result(tier, feed', investigations, analyzer_results,
                                           baseline_updates)>>
             /\ trace' = Append(trace, "format")
             /\ pc' = StepAfter("format", tier)
             /\ faults' = faults \cup {NarrativeFault(o) : o \in failing}
       \/ /\ Abort("format")
          /\ UNCHANGED <<feed, trace>>
    /\ UNCHANGED <<failed_reads, tier, baseline_updates, analyzer_results, prioritized,
                   investigations, csv_headers, scoreVars, concVars,
                   detectVars, baselineVars>>

\* Results of the cost analyzer for the last three steps of a run: up to
\* MaxFeedPatterns patterns and up to MaxFeedPredictions predictions, the
\* first five of them critical
MaxFeedPatterns == 3
MaxFeedPredictions == 14

FeedPatterns ==
    <<[type |-> "material", identifier |-> "MAT-A", order_count |-> 13, total_impact |-> 12000],
      [type |-> "material", identifier |-> "MAT-B", order_count |-> 3, total_impact |-> 1200],
      [type |-> "supplier", identifier |-> "SUP-1", order_count |-> 8, total_impact |-> -4500],
      [type |-> "material", identifier |-> "MAT-C", order_count |-> 3, total_impact |-> 0]>>

FeedPrediction(i) ==
    [work_order_number  |-> WorkOrderNumbers[i],
     predicted_variance |-> IF i <= 5 THEN 12000 ELSE 1200,
     confidence         |-> 92,
     risk_level         |-> risk_level_of(IF i <= 5 THEN 12000 ELSE 1200)]

FeedResults ==
    {("cost_analyzer" :> [status      |-> "success",
                          patterns    |-> SubSeq(FeedPatterns, 1, np),
                          predictions |-> [i \in 1..nq |-> FeedPrediction(i)]]) :
        np \in 0..MaxFeedPatterns, nq \in 0..MaxFeedPredictions}

\* a tier 1 run of analyze whose cost analyzer has returned
InitFeed ==
    /\ ScoreIdle
    /\ csv_headers = [none |-> FALSE, headers |-> Tier1Headers]
    /\ tier = detect_tier(Tier1Headers)
    /\ pc = "prioritize"
    /\ failed_reads = {}
    /\ baseline_updates = EmptyMap
    /\ analyzer_results \in FeedResults
    /\ prioritized = NoPrioritized
    /\ investigations = <<>>
    /\ feed = NoFeed
    /\ result = <<>>
    /\ trace = <<"tier", "baseline", "cost_analyzer">>
    /\ faults = {}
    /\ work_orders = <<>>
    /\ BaselineEmpty
    /\ NoRuns
    /\ NoCall

NextFeed ==
    \/ PrioritizeInsights
    \/ CreateInvestigations
    \/ FormatNarratedFeed

SpecFeed == InitFeed /\ [][NextFeed]_vars

-----------------------------------------------------------------------------
(* BaselineTracker.update_baselines while the stored orders grow older     *)

\* the oldest an order gets in the model
MaxAge == 90

\* WINDOW_DAYS days pass: every stored order is that much older
PassDays ==
    /\ work_orders # <<>>
    /\ \A i \in 1..Len(work_orders) : work_orders[i].age_days + WINDOW_DAYS <= MaxAge
    /\ work_orders' = [i \in 1..Len(work_orders) |->
                          [work_orders[i] EXCEPT !.age_days = @ + WINDOW_DAYS]]
    /\ UNCHANGED <<facility_baselines, upsert_log, updates, clock, scoreVars, runVars,
                   concVars, detectVars>>

\* the rows uploaded between the refreshes of this scenario, and how many
RetentionRows == {1, 4, 6}
MaxRetentionOrders == 2

UploadBetween ==
    /\ Len(work_orders) < MaxRetentionOrders
    /\ \E i \in RetentionRows : work_orders' = Append(work_orders, OrderPalette[i])
    /\ UNCHANGED <<facility_baselines, upsert_log, updates, clock, scoreVars, runVars,
                   concVars, detectVars>>

NextRetention == Refresh \/ UploadBetween \/ PassDays

SpecRetention == InitBaseline /\ [][NextRetention]_vars

-----------------------------------------------------------------------------
(* Properties                                                              *)

Done == pc = "done"
Succeeded == result # <<>> /\ result[1].success
Ran(step) == \E i \in 1..Len(trace) : trace[i] = step

\* the insights that step 4 extracts and scores in this run
RunInsights ==
    collect_insights(ResultOf(analyzer_results, "cost_analyzer"),
                     ResultOf(analyzer_results, "equipment_predictor"),
                     ResultOf(analyzer_results, "quality_analyzer"),
                     ResultOf(analyzer_results, "efficiency_analyzer"))

AllTiers == prioritized.urgent \o prioritized.notable \o prioritized.background

LevelsAre(s, level) == \A i \in 1..Len(s) : s[i].priority_level = level

\* C1: when prioritize_insights has scored N insights, urgent holds exactly
\* min(5, N) of them, notable min(10, max(0, N - 5)), background the others; the
\* three lists together hold every scored insight exactly once; read urgent,
\* notable, background in that order, the scores never increase; and every
\* insight's priority_level is the tier of the list it is in.
C1_Tiering ==
    Ran("prioritize") =>
        LET N == Len(RunInsights)
        IN  /\ Len(prioritized.urgent) = Min(5, N)
            /\ Len(prioritized.notable) = Min(10, Max(0, N - 5))
            /\ Len(prioritized.background) = N - Min(5, N) - Min(10, Max(0, N - 5))
            /\ prioritized.total_insights = N
            /\ Len(AllTiers) = N
            /\ {AllTiers[i].oid : i \in 1..Len(AllTiers)} = 1..N
            /\ \A i \in 1..Len(AllTiers) :
                  AllTiers[i].priority_score = score_insight(RunInsights[AllTiers[i].oid]).priority_score
            /\ \A i, j \in 1..Len(AllTiers) :
                  i < j => AllTiers[i].priority_score >= AllTiers[j].priority_score
            /\ LevelsAre(prioritized.urgent, "urgent")
            /\ LevelsAre(prioritized.notable, "notable")
            /\ LevelsAre(prioritized.background, "background")

\* C1 witness: a run scored more than 15 insights with differing scores, so all
\* three tiers are populated
C1_Witness ==
    /\ Ran("prioritize")
    /\ Len(prioritized.urgent) = 5
    /\ Len(prioritized.notable) = 10
    /\ Len(prioritized.background) >= 2
    /\ prioritized.urgent[1].priority_score > prioritized.background[1].priority_score

\* the order the claim fixes for a run of tier t
C2_Order(t) ==
    <<"tier", "baseline">>
    \o SelectSeq(<<"cost_analyzer", "equipment_predictor", "quality_analyzer",
                   "efficiency_analyzer">>, LAMBDA a : a \in available_analyzers(t))
    \o <<"prioritize", "investigate", "format">>

IsPrefix(s, t) == Len(s) <= Len(t) /\ \A i \in 1..Len(s) : s[i] = t[i]

\* C2: the steps of a run complete in one fixed order: tier detection, baseline
\* refresh, every applicable analyzer, scoring and tiering, investigation
\* grouping, feed formatting.  No analyzer completes before the baseline refresh
\* has returned, scoring does not happen before every applicable analyzer has
\* returned, and a run that returns success has done every step.
C2_FixedStepOrder ==
    /\ tier = 0 => trace = <<>>
    /\ tier # 0 => IsPrefix(trace, C2_Order(tier))
    /\ \A a \in DOMAIN analyzer_results : Ran("baseline")
    /\ Ran("prioritize") => DOMAIN analyzer_results = available_analyzers(tier)
    /\ Succeeded => trace = C2_Order(tier)

\* C2 witness: a successful run of tier 4, in which all four analyzers ran
C2_Witness == Succeeded /\ tier = 4 /\ Len(trace) = 9

\* the four sub-scores of a ScoredInsight
SubScores(sc) ==
    {financial_score_of(sc.financial_impact), sc.deviation_score, sc.urgency_score,
     sc.confidence_score}

\* C6: every sub-score of a scored insight lies in [0, 100], and so does its
\* priority_score
C6_SubScoresInRange ==
    scored # <<>> =>
        /\ \A x \in SubScores(scored[1]) : 0 <= x /\ x <= ScoreMax
        /\ 0 <= scored[1].priority_score /\ scored[1].priority_score <= ScoreMax

\* C7: of two insights that differ only in financial_impact, the one with the
\* larger financial_impact has a priority_score at least as large
C7_MonotonicInFinancialImpact ==
    scored # <<>> =>
        \A f \in FinancialImpacts :
            LET other == score_insight([insight EXCEPT !.financial_impact = f])
            IN  /\ f >= insight.financial_impact
                      => other.priority_score >= scored[1].priority_score
                /\ f <= insight.financial_impact
                      => other.priority_score <= scored[1].priority_score

\* C7 witness: an insight was scored, and a larger financial_impact would have
\* scored strictly higher, a still larger one (past the cap) no higher than that
C7_Witness ==
    /\ scored # <<>>
    /\ \E f, g \in FinancialImpacts :
          /\ insight.financial_impact < f /\ f < g
          /\ score_insight([insight EXCEPT !.financial_impact = f]).priority_score
                > scored[1].priority_score
          /\ score_insight([insight EXCEPT !.financial_impact = g]).priority_score
                = score_insight([insight EXCEPT !.financial_impact = f]).priority_score

\* the steps whose exceptions only the except block of analyze catches
AbortingSteps == {"tier", "prioritize", "format"}

\* the feed and the investigations the run's analyzer results lead to
RunFeed == format_prioritized_feed(prioritized)
FeedItems(f) == f.urgent \o f.notable \o f.background

FailedAnalyzers == {a \in DOMAIN analyzer_results : ~IsSuccess(analyzer_results[a])}

FromAnalyzers(f, as) == SelectSeq(FeedItems(f), LAMBDA item : item.source \in as)

\* C4 as stated: when an applicable analyzer raises or returns a status other
\* than 'success', the run still returns success = true, the feed holds no
\* insight of that analyzer, and the summary reports it with status 'error'.
C4_FailedAnalyzerReportedAsError ==
    Done /\ faults \subseteq {"cost_analyzer"} /\ FailedAnalyzers # {} =>
        /\ Succeeded
        /\ FromAnalyzers(result[1].insights, FailedAnalyzers) = <<>>
        /\ \A a \in FailedAnalyzers : result[1].analyzer_details[a].status = "error"

\* C4: when an applicable analyzer raises or returns a status other than
\* 'success', and tier detection, scoring and formatting do not raise, the run
\* returns success = true; the feed holds no insight of that analyzer and every
\* insight of every analyzer that returned 'success'; the summary reports the
\* analyzer with status 'error' when it raised or returned 'error', and
\* otherwise with the status it returned ('insufficient_data', 'not_implemented').
C4_FailedAnalyzerOmitted ==
    Done /\ faults \cap AbortingSteps = {} /\ FailedAnalyzers # {} =>
        /\ Succeeded
        /\ FromAnalyzers(result[1].insights, FailedAnalyzers) = <<>>
        /\ LET items == FeedItems(result[1].insights)
           IN  /\ Len(items) = Len(RunInsights)
               /\ \A k \in 1..Len(RunInsights) :
                     \E i \in 1..Len(items) :
                         /\ items[i].source = RunInsights[k].source_analyzer
                         /\ items[i].type = RunInsights[k].insight_type
                         /\ items[i].data = RunInsights[k].data
                         /\ items[i].financial_impact = RunInsights[k].financial_impact
        /\ IsSuccess(ResultOf(analyzer_results, "cost_analyzer")) =>
              Len(RunInsights) = Len(analyzer_results.cost_analyzer.predictions)
                                 + Len(analyzer_results.cost_analyzer.patterns)
        /\ \A a \in FailedAnalyzers :
              result[1].analyzer_details[a].status
                = IF analyzer_results[a].status = "error" THEN "error"
                  ELSE analyzer_results[a].status
        /\ "cost_analyzer" \in faults => analyzer_results.cost_analyzer.status = "error"

\* C4 witness: the cost analyzer raised in a run of tier 4, which returned
\* success with an empty feed
C4_Witness ==
    /\ Succeeded
    /\ tier = 4
    /\ "cost_analyzer" \in faults
    /\ result[1].analyzer_details.cost_analyzer.status = "error"
    /\ result[1].analyzer_details.quality_analyzer.status = "not_implemented"
    /\ FeedItems(result[1].insights) = <<>>

\* C5: when every work_orders query of the run fails (the one of the baseline
\* refresh and the one of the cost analyzer), analyze returns success = false.
C5_UnreadableStoreFailsRun ==
    Done /\ failed_reads = {"baseline", "cost_analyzer"} => ~Succeeded

\* the Insights of all tiers that investigation grouping is about
RunPatterns == SelectSeq(AllTiers, IsMaterialPattern)
TopPatterns == SelectSeq(prioritized.urgent \o prioritized.notable, IsMaterialPattern)

GroupsExactly(invs, pats) ==
    IF Len(pats) >= 2
    THEN /\ Len(invs) = 1
         /\ invs[1].members = MapSeq(pats, LAMBDA i : i.oid)
         /\ invs[1].insight_count = Len(pats)
         /\ invs[1].total_impact = SumSeq(MapSeq(pats, LAMBDA i : i.financial_impact))
    ELSE invs = <<>>

\* C8 as stated: with at least 2 scored material or supplier pattern Insights in
\* the run, in whichever tier, analyze returns exactly one Investigation of all
\* of them whose total_impact is the sum of their financial_impact; with fewer,
\* none.
C8_GroupsPatternsOfAllTiers ==
    Succeeded /\ "investigate" \notin faults =>
        GroupsExactly(result[1].investigations, RunPatterns)

\* C8: with at least 2 material or supplier pattern Insights among the urgent and
\* notable Insights of the run, analyze returns exactly one Investigation of all
\* of those whose total_impact is the sum of their financial_impact; with fewer
\* there, or when grouping itself raises, it returns none.
C8_GroupsTopTierPatterns ==
    Succeeded =>
        IF "investigate" \in faults THEN result[1].investigations = <<>>
        ELSE GroupsExactly(result[1].investigations, TopPatterns)

\* C8 witness: three patterns, one of which landed in background, so the
\* Investigation holds the two others
C8_Witness ==
    /\ Succeeded
    /\ Len(RunPatterns) = 3
    /\ Len(TopPatterns) = 2
    /\ Len(result[1].investigations) = 1
    /\ result[1].investigations[1].insight_count = 2

NoDuplicates(s) == \A i, j \in 1..Len(s) : i # j => s[i] # s[j]

\* C9: every Investigation of a run groups at least 2 Insights, and no feed id
\* is in two Investigations or twice in one.
C9_InvestigationsDisjoint ==
    Succeeded =>
        LET invs == result[1].investigations
        IN  /\ \A k \in 1..Len(invs) :
                  /\ invs[k].insight_count >= 2
                  /\ Len(invs[k].connected_insights) >= 2
                  /\ NoDuplicates(invs[k].connected_insights)
            /\ \A k, l \in 1..Len(invs) :
                  k # l => \A i \in 1..Len(invs[k].connected_insights) :
                              \A j \in 1..Len(invs[l].connected_insights) :
                                  invs[k].connected_insights[i] # invs[l].connected_insights[j]

LastUpdate == updates[Len(updates)]
UpdateFailed ==
    /\ updates # <<>>
    /\ \/ ~LastUpdate.read_ok
       \/ \E i \in 1..Len(upsert_log) : upsert_log[i].failed

\* C10: when the store read or any upsert of update_baselines fails, the call
\* returns the empty map, writes nothing after the failure, and so counts no
\* baseline whose write failed.
C10_FailedUpdateAbandoned ==
    UpdateFailed =>
        /\ LastUpdate.returned = EmptyMap
        /\ \A i, j \in 1..Len(upsert_log) : i < j => ~upsert_log[i].failed

\* the rows of a run's window that carry a non-null value (0 included) for the
\* group a baseline key names
NonNullSamples(rows, key) ==
    LET metric_type == key[2]
        identifier == key[3]
    IN  CASE metric_type = "material_cost" ->
               SelectSeq(rows, LAMBDA wo : /\ Get(wo, "material_code", "") = identifier
                                            /\ "actual_material_cost" \in DOMAIN wo)
          [] metric_type = "labor_hours" ->
               SelectSeq(rows, LAMBDA wo : /\ LaborKey(wo) = identifier
                                            /\ "actual_labor_hours" \in DOMAIN wo)
          [] metric_type = "equipment_cycle_time" ->
               SelectSeq(rows, LAMBDA wo : /\ HasEquipment(wo)
                                            /\ EquipmentKey(wo) = identifier
                                            /\ "actual_labor_hours" \in DOMAIN wo)
          [] OTHER -> <<>>

ValueMetrics == {"material_cost", "labor_hours", "equipment_cycle_time"}

\* the keys a window has a non-null sample for
SampledKeys(rows, facility_id) ==
    {<<facility_id, "material_cost", rows[i].material_code>> :
        i \in {j \in 1..Len(rows) : TruthyStr(rows[j], "material_code")
                                     /\ "actual_material_cost" \in DOMAIN rows[j]}}

\* C11: every stored baseline has sample_count >= 1 and rolling_std >= 0; the
\* sample_count a run writes for a cost, labor or equipment group is the number
\* of rows of its window with a non-null value for the group, 0 being a value;
\* and the run writes exactly the groups that have such a row.
C11_SampleCountIsNonNullCount ==
    /\ \A k \in DOMAIN facility_baselines :
          facility_baselines[k].sample_count >= 1 /\ facility_baselines[k].rolling_std >= 0
    /\ updates # <<>> /\ LastUpdate.read_ok =>
          /\ \A i \in 1..Len(upsert_log) :
                (~upsert_log[i].failed /\ upsert_log[i].key[2] \in ValueMetrics) =>
                    facility_baselines[upsert_log[i].key].sample_count
                      = Len(NonNullSamples(LastUpdate.window, upsert_log[i].key))
          /\ LastUpdate.window # <<>> =>
                \A k \in SampledKeys(LastUpdate.window, LastUpdate.window[1].facility_id) :
                    \E i \in 1..Len(upsert_log) : upsert_log[i].key = k

\* a baseline row without its last_updated stamp
Measured(table) ==
    [k \in DOMAIN table |-> [rolling_avg  |-> table[k].rolling_avg,
                             rolling_std  |-> table[k].rolling_std,
                             sample_count |-> table[k].sample_count]]

\* the table after the runs of `order` ran one after the other, each writing what
\* it read
RECURSIVE SerialTable(_)
SerialTable(order) ==
    IF order = <<>> THEN EmptyMap
    ELSE upsert_all(SerialTable(SubSeq(order, 1, Len(order) - 1)),
                    runs[order[Len(order)]].attempts, {}, 0)

RunOrders == {order \in [Runs -> Runs] : \A p, q \in Runs : p # q => order[p] # order[q]}

\* C12: update_baselines runs of one facility exclude each other: no run reads or
\* upserts while another run of the facility is between its query and its last
\* upsert, and once the runs are done the baseline rows are those of the runs
\* executed one after the other in some order.
C12_RefreshesMutuallyExclusive ==
    /\ \A p, q \in Runs :
          (p # q /\ runs[p].pc = "writing" /\ runs[q].pc = "writing")
              => runs[p].facility_id # runs[q].facility_id
    /\ (\A p \in Runs : runs[p].pc = "done") =>
          \E order \in RunOrders : Measured(facility_baselines) = Measured(SerialTable(order))

Called(fn) == call.fn = fn /\ outcome # <<>>

\* point i of the series is out of threshold, in the claim's words: farther from
\* baseline_avg than 2 x baseline_std, or than 20% of baseline_avg when
\* baseline_std is 0
OutOfThreshold(points, i, avg, std) ==
    IF std = 0 THEN 5 * Abs(points[i].value - avg) > avg
    ELSE Abs(points[i].value - avg) > 2 * std

\* the first points of the runs of 3 consecutive out-of-threshold points
RunsOfThree(points, avg, std) ==
    {i \in 1..(Len(points) - 2) :
        \A j \in i..(i + 2) : OutOfThreshold(points, j, avg, std)}

\* C13: _find_divergence_point returns none for a series of fewer than 3 points
\* and for a series without 3 consecutive out-of-threshold points; otherwise it
\* returns the first point of the earliest run of 3 consecutive out-of-threshold
\* points (an in-threshold point ends a run).
C13_DivergenceIsFirstOfEarliestRun ==
    Called("find_divergence_point") =>
        LET points == call.data_points
            starts == RunsOfThree(points, call.baseline_avg, call.baseline_std)
        IN  /\ Len(points) < 3 => outcome[1] = None
            /\ starts = {} => outcome[1] = None
            /\ starts # {} =>
                  outcome[1] = Some(points[CHOOSE i \in starts : \A j \in starts : i <= j])

\* C13 witness: out, in, out, out, out: the in-threshold point resets the run, and
\* the third point, the first of the run of 3 that follows, is returned
C13_Witness ==
    /\ Called("find_divergence_point")
    /\ call.baseline_std = 10
    /\ [i \in 1..Len(call.data_points) |-> call.data_points[i].value]
          = <<130, 120, 60, 130, 60>>
    /\ outcome[1] = Some([date |-> 3, value |-> 60])

\* the rows of the response that give a point of the series: the orders of the
\* material asked for whose cost is not null, oldest first
SeriesRows(response, identifier) ==
    SelectSeq(response, LAMBDA wo : /\ wo.material_code = identifier
                                    /\ "actual_material_cost" \in DOMAIN wo)

\* C14: for every series extracted from the record store, with or without a
\* timezone designator on the timestamps, that contains 3 consecutive
\* out-of-threshold points, detect_trend_start returns a divergence whose
\* start_date is the timestamp of the first of those 3 points and whose days_ago
\* is the whole-day difference between now and that timestamp.
C14_TrendStartReported ==
    Called("detect_trend_start") =>
        LET rows == SeriesRows(call.response, call.identifier)
            points == [i \in 1..Len(rows) |-> [value |-> rows[i].actual_material_cost]]
            starts == RunsOfThree(points, call.baseline_avg, call.baseline_std)
            first == rows[CHOOSE i \in starts : \A j \in starts : i <= j]
        IN  starts # {} =>
              /\ ~outcome[1].none
              /\ outcome[1].value.start_date.age_days = first.upload_timestamp.age_days
              /\ outcome[1].value.days_ago = first.upload_timestamp.age_days

\* C15: calculate_deviation(x, 0) returns normally for every x, with
\* deviation_pct = 0 and a direction that follows the sign of x: 'higher' when
\* x > 0, 'lower' when x < 0.
C15_ZeroBaselineDeviation ==
    (Called("calculate_deviation") /\ call.baseline_avg = 0) =>
        /\ DOMAIN outcome[1] = {"deviation_pct", "deviation_abs", "multiplier", "direction"}
        /\ outcome[1].deviation_pct = 0
        /\ call.current_value > 0 => outcome[1].direction = "higher"
        /\ call.current_value < 0 => outcome[1].direction = "lower"

\* C15 witness: a negative value against a zero baseline gives 'lower' and 0%
C15_Witness ==
    /\ Called("calculate_deviation")
    /\ call.baseline_avg = 0
    /\ call.current_value < 0
    /\ outcome[1].direction = "lower"
    /\ outcome[1].deviation_abs = call.current_value

\* the values of the valid data points of the series a detector was called on:
\* the non-zero labor hours, the non-zero material costs, the scrap rates of the
\* orders with units produced
ValidValues ==
    CASE call.fn = "detect_equipment_degradation" ->
            LET rows == SelectSeq(call.response, LAMBDA wo : wo.actual_labor_hours # 0)
            IN  [i \in 1..Len(rows) |-> rows[i].actual_labor_hours]
      [] call.fn = "detect_cost_trend" ->
            LET rows == SelectSeq(call.response, LAMBDA wo : wo.actual_material_cost # 0)
            IN  [i \in 1..Len(rows) |-> rows[i].actual_material_cost]
      [] call.fn = "detect_quality_drift" ->
            LET rows == SelectSeq(call.response, LAMBDA wo : wo.units_produced > 0)
            IN  [i \in 1..Len(rows) |->
                    IF "units_scrapped" \in DOMAIN rows[i] THEN rows[i].units_scrapped ELSE 0]
      [] OTHER -> <<>>

\* the sums of the first and of the last floor(n/3) values
EarlySum(values) == SumSeq(SubSeq(values, 1, Len(values) \div 3))
RecentSum(values) ==
    SumSeq(SubSeq(values, Len(values) - (Len(values) \div 3) + 1, Len(values)))

\* |recent_avg - early_avg| / early_avg > 0.3, both averages over the same number
\* of values
SignificanceAbove30(values) ==
    /\ EarlySum(values) > 0
    /\ 10 * Abs(RecentSum(values) - EarlySum(values)) > 3 * EarlySum(values)

TrendDetectors == {"detect_equipment_degradation", "detect_cost_trend", "detect_quality_drift"}

\* C16: detect_equipment_degradation, detect_cost_trend and detect_quality_drift
\* return a trend object only when the series has at least 5 valid data points
\* and slope_significance is strictly greater than 0.3; with fewer than 5 valid
\* points or a significance of at most 0.3 they return none, and they never
\* raise.
C16_TrendOnlyWhenSignificant ==
    (call.fn \in TrendDetectors /\ outcome # <<>>) =>
        /\ outcome[1] = None \/ (~outcome[1].none /\ "status" \in DOMAIN outcome[1].value)
        /\ ~outcome[1].none => (Len(ValidValues) >= 5 /\ SignificanceAbove30(ValidValues))
        /\ (Len(ValidValues) < 5 \/ ~SignificanceAbove30(ValidValues)) => outcome[1] = None

\* C16 witness: a cost trend emitted from 6 rows of which exactly 5 are valid
C16_Witness ==
    /\ Called("detect_cost_trend")
    /\ Len(call.response) = 6
    /\ Len(ValidValues) = 5
    /\ ~outcome[1].none
    /\ outcome[1].value.data_points = 5
    /\ outcome[1].value.trend_direction = "decreasing"

\* C19: every event emitted by detect_equipment_degradation has slope > 0; while
\* recent_avg is below the threshold 2 x early_avg its days_to_threshold is
\* floor((2 * early_avg - recent_avg) / slope) with slope = (recent_avg -
\* early_avg) / n; once recent_avg >= 2 x early_avg the estimate is None, not 0.
C19_ThresholdEstimate ==
    (Called("detect_equipment_degradation") /\ ~outcome[1].none) =>
        LET n == Len(ValidValues)
            rise == RecentSum(ValidValues) - EarlySum(ValidValues)
            remaining == 2 * EarlySum(ValidValues) - RecentSum(ValidValues)
            days == outcome[1].value.days_to_threshold
        IN  /\ rise > 0
            /\ remaining > 0 =>
                  /\ ~days.none
                  /\ days.value * rise <= remaining * n
                  /\ remaining * n < (days.value + 1) * rise
            /\ remaining <= 0 => days = None

\* C19 witness: a degrading equipment whose recent average has already doubled
\* is reported without an estimate
C19_Witness ==
    /\ Called("detect_equipment_degradation")
    /\ ~outcome[1].none
    /\ RecentSum(ValidValues) >= 2 * EarlySum(ValidValues)
    /\ outcome[1].value.days_to_threshold = None
    /\ outcome[1].value.status = "degrading"

\* C17: the orchestrator invokes exactly the domain analyzers named in the
\* capability gate's available_analyzers: an analyzer outside them is never
\* invoked, leaves no result and contributes no insight, and the analyzers_run
\* that analyze reports are the available ones among cost_analyzer,
\* equipment_predictor, quality_analyzer and efficiency_analyzer.
C17_OnlyAvailableAnalyzersRun ==
    /\ \A i \in 1..Len(AnalyzerNames) :
          (Ran(AnalyzerNames[i]) \/ AnalyzerNames[i] \in DOMAIN analyzer_results) =>
              (tier \in Tiers /\ AnalyzerNames[i] \in available_analyzers(tier))
    /\ (Done /\ Succeeded) =>
          /\ result[1].analyzer_details.analyzers_run =
                SelectSeq(AnalyzerNames, LAMBDA a : a \in available_analyzers(tier))
          /\ \A i \in 1..Len(FeedItems(result[1].insights)) :
                FeedItems(result[1].insights)[i].source \in available_analyzers(tier)

\* C17 witness: a run of tier 3 that ends having invoked the three analyzers of
\* that tier and not the efficiency analyzer
C17_Witness ==
    /\ Done
    /\ Succeeded
    /\ tier = 3
    /\ result[1].analyzer_details.analyzers_run =
          <<"cost_analyzer", "equipment_predictor", "quality_analyzer">>
    /\ ~Ran("efficiency_analyzer")
    /\ Len(FeedItems(result[1].insights)) > 0

\* C18: tier detection maps the basic cost columns (work order number, planned
\* and actual material cost) to tier 1, those plus the equipment id and machine
\* id columns to tier 2, and those plus the scrap and quality-issue columns to
\* tier 3.
C18_TestedTiers ==
    (Ran("tier") /\ ~csv_headers.none) =>
        /\ csv_headers.headers = Tier1Headers => tier = 1
        /\ csv_headers.headers = Tier2Headers => tier = 2
        /\ csv_headers.headers = Tier3Headers => tier = 3

\* member i of the call has a trend of that status
MemberIs(i, status) ==
    /\ "trend" \in DOMAIN call.insights[i].insight_data
    /\ "status" \in DOMAIN call.insights[i].insight_data.trend
    /\ call.insights[i].insight_data.trend.status = status

Reorderings(n) == {f \in [1..n -> 1..n] : \A i, j \in 1..n : f[i] = f[j] => i = j}

\* C20: the aggregated trend status is ACCELERATING if at least one member's
\* trend status is ACCELERATING, otherwise DECELERATING if at least one member's
\* is DECELERATING, otherwise STABLE (a member without a trend counts as STABLE),
\* and it is the same for every order of the members.
C20_AggregatedTrend ==
    Called("aggregate_trends") =>
        LET members == 1..Len(call.insights)
            expected == IF \E i \in members : MemberIs(i, "ACCELERATING") THEN "ACCELERATING"
                        ELSE IF \E i \in members : MemberIs(i, "DECELERATING")
                        THEN "DECELERATING"
                        ELSE "STABLE"
        IN  /\ outcome[1].status = expected
            /\ \A f \in Reorderings(Len(call.insights)) :
                  aggregate_trends([i \in members |-> call.insights[f[i]]]) = outcome[1]

\* C20 witness: a decelerating member before an accelerating one and one without
\* a trend aggregate to ACCELERATING
C20_Witness ==
    /\ Called("aggregate_trends")
    /\ Len(call.insights) = 3
    /\ MemberIs(1, "DECELERATING")
    /\ MemberIs(2, "ACCELERATING")
    /\ "trend" \notin DOMAIN call.insights[3].insight_data
    /\ outcome[1].status = "ACCELERATING"

\* the orders of a window that carry a supplier id
Supplied(orders) == SelectSeq(orders, LAMBDA wo : SupplierOf(wo) # "")

\* the positions in Supplied(orders) of the first order of a new supplier
Transitions(orders) ==
    {i \in 2..Len(Supplied(orders)) :
        SupplierOf(Supplied(orders)[i]) # SupplierOf(Supplied(orders)[i - 1])}

\* C21: for every window of time-ordered records (some of which may carry no
\* supplier id) with at least 2 distinct supplier ids, the supplier-change
\* detector returns a supplier_change finding that describes the last
\* transition of the window: from/to suppliers, the date of the first record of
\* the new supplier, and the days-ago of that date.
C21_LastTransitionReported ==
    Called("detect_supplier_change_timing") =>
        LET supplied == Supplied(call.work_orders)
            transitions == Transitions(call.work_orders)
            last == CHOOSE i \in transitions : \A j \in transitions : j <= i
        IN  transitions # {} =>
              /\ ~outcome[1].none
              /\ outcome[1].value.type = "supplier_change"
              /\ outcome[1].value.description
                   = <<"Supplier changed", SupplierOf(supplied[last - 1]),
                       SupplierOf(supplied[last])>>
              /\ outcome[1].value.date.age_days = supplied[last].upload_timestamp.age_days
              /\ outcome[1].value.days_ago = supplied[last].upload_timestamp.age_days

\* C22: the strength of a supplier_change finding is 'high' exactly when an
\* inflection date was supplied and the date of the reported transition lies
\* within 5 days of that inflection date; otherwise it is 'medium'.
C22_StrengthFollowsInflection ==
    (Called("detect_supplier_change_timing") /\ ~outcome[1].none) =>
        LET finding == outcome[1].value
            near == /\ ~call.inflection_date.none
                    /\ Abs(finding.date.age_days - call.inflection_date.value.age_days)
                         <= StrengthWindowDays
        IN  finding.correlation_strength = IF near THEN "high" ELSE "medium"

\* the types of the findings of a returned list, in order
TypesOf(correlations) == [i \in 1..Len(correlations) |-> correlations[i].type]

\* the list holds a finding of the type
Fired(correlations, type) == \E i \in 1..Len(correlations) : correlations[i].type = type

\* the rows of a window, as a set
Range(orders) == {orders[i] : i \in 1..Len(orders)}

\* the conditions of the six detector passes on a window
SupplierCondition(orders) == Cardinality({SupplierOf(wo) : wo \in Range(orders)} \ {""}) >= 2
BatchCondition(orders) == Cardinality({Get(wo, "batch_id", "") : wo \in Range(orders)} \ {""}) >= 2
PriceCondition(orders) ==
    LET priced == SelectSeq(orders, LAMBDA wo : TruthyNum(wo, "actual_material_cost"))
    IN  \E i \in 2..Len(priced) :
           ChangedOver(priced[i - 1].actual_material_cost, priced[i].actual_material_cost,
                       JumpPct)
EquipmentCondition(orders) ==
    /\ \A wo \in Range(orders) : "units_scrapped" \in DOMAIN wo
    /\ \E a, b \in {EquipmentKey(wo) : wo \in {r \in Range(orders) : RatedOrder(r)}} :
          AverageOver(ScrapRates(orders, a), ScrapRates(orders, b), EquipmentFactor10)
UsageCondition(orders) ==
    LET mid == Len(orders) \div 2
        first == HoursSum(SubSeq(orders, 1, mid)) * (Len(orders) - mid)
        second == HoursSum(SubSeq(orders, mid + 1, Len(orders))) * mid
    IN  first > 0 /\ ChangedOver(first, second, JumpPct)
ShiftCondition(orders) ==
    \E a, b \in {wo.shift : wo \in {r \in Range(orders) : ShiftOrder(r)}} :
        AverageOver(ShiftHours(orders, a), ShiftHours(orders, b), ShiftFactor10)

\* C23: every correlation detector has the same minimum window of 5 records:
\* the three find_*_correlations functions return an empty list for fewer than 5
\* records, and for 5 or more records each detector pass (supplier change, batch
\* change, price jump, equipment quality pattern, usage-intensity shift, shift
\* pattern) fires whenever its own condition holds, contributing at most one
\* finding to the returned list.
C23_MinimumWindowOfFive ==
    LET orders == call.response
        found == outcome[1]
        Fires(condition, type) == (Len(orders) >= MinWindow /\ condition) => Fired(found, type)
        AtMostOne == \A i, j \in 1..Len(found) : found[i].type = found[j].type => i = j
    IN  /\ Called("find_cost_correlations") =>
             /\ Len(orders) < MinWindow => found = <<>>
             /\ Fires(SupplierCondition(orders), "supplier_change")
             /\ Fires(BatchCondition(orders), "batch_change")
             /\ Fires(PriceCondition(orders), "price_jump")
             /\ AtMostOne
        /\ Called("find_quality_correlations") =>
             /\ Len(orders) < MinWindow => found = <<>>
             /\ Fires(SupplierCondition(orders), "supplier_change")
             /\ Fires(EquipmentCondition(orders), "equipment_pattern")
             /\ AtMostOne
        /\ Called("find_equipment_correlations") =>
             /\ Len(orders) < MinWindow => found = <<>>
             /\ Fires(UsageCondition(orders), "usage_intensity")
             /\ Fires(ShiftCondition(orders), "shift_pattern")
             /\ AtMostOne

\* the rank of a correlation_strength: high before medium before low
StrengthRank(strength) ==
    CASE strength = "high" -> 3 [] strength = "medium" -> 2 [] OTHER -> 1

\* a find_*_correlations call has returned and its list has reached the feed
Fed == call.fn \in {"find_cost_correlations", "find_quality_correlations",
                    "find_equipment_correlations"} /\ Len(outcome) = 2

\* the list of correlations carried by the feed item
FedCorrelations == Get(outcome[2].data, "correlations", <<>>)

\* C24: the list of Correlations attached to one cost trend, degradation or
\* drift finding is ordered by strength descending (high before medium before
\* low), so its first element, the 'primary' correlation, has the highest
\* strength present in the list.
C24_StrongestFirst ==
    Fed => \A i, j \in 1..Len(FedCorrelations) :
              i < j => StrengthRank(FedCorrelations[i].correlation_strength)
                         >= StrengthRank(FedCorrelations[j].correlation_strength)

\* s is a subsequence of t, for sequences without repetitions
IsSubsequence(s, t) ==
    /\ \A i \in 1..Len(s) : \E k \in 1..Len(t) : t[k] = s[i]
    /\ \A i, j \in 1..Len(s) :
          i < j => \E k, l \in 1..Len(t) : k < l /\ t[k] = s[i] /\ t[l] = s[j]

BucketNames == {"urgent", "notable", "background"}

\* step 6 has returned the feed
FeedFormatted == pc = "done" /\ trace # <<>> /\ trace[Len(trace)] = "format"

\* the recommender raised for this scored insight
NarrativeFailed(s) == NarrativeFault(s.oid) \in faults

\* C26: a failure of the narrative generator is non-fatal: if
\* generate_consultant_narrative raises for an insight during
\* format_prioritized_feed, that insight still appears in its tier of the feed
\* with the generic fallback narrative (headline '<identifier> requires
\* attention', urgency_level 'medium'), every other insight keeps its own
\* narrative, and the tier counts in the summary are unchanged.
C26_NarrativeFailureNonFatal ==
    FeedFormatted =>
        /\ result[1].success
        /\ \A b \in BucketNames :
              /\ Len(feed[b]) = Len(prioritized[b])
              /\ \A k \in 1..Len(prioritized[b]) :
                    LET s == prioritized[b][k]
                        item == feed[b][k]
                        identifier == Get(s.insight_data, "identifier", "Unknown")
                    IN  /\ item.id = feed_id(s)
                        /\ item.priority = b
                        /\ NarrativeFailed(s) =>
                              /\ Get(item.narrative, "headline", <<>>)
                                   = <<identifier, "requires attention">>
                              /\ Get(item.narrative, "urgency_level", "none") = "medium"
                        /\ ~NarrativeFailed(s) =>
                              /\ Get(item.narrative, "generated_by", "none")
                                   = "generate_consultant_narrative"
                              /\ Get(item.narrative, "identifier", "none") = identifier
        /\ feed.summary.total_insights = prioritized.total_insights
        /\ feed.summary.urgent_count = Len(prioritized.urgent)
        /\ feed.summary.notable_count = Len(prioritized.notable)
        /\ feed.summary.background_count = Len(prioritized.background)

\* C26 witness: a feed with a full urgent tier in which the narrative of exactly
\* one insight, a notable one, failed
C26_Witness ==
    /\ FeedFormatted
    /\ Len(feed.urgent) = URGENT_COUNT
    /\ Cardinality(faults) = 1
    /\ \E k \in 1..Len(prioritized.notable) :
          /\ NarrativeFailed(prioritized.notable[k])
          /\ feed.notable[k].narrative.urgency_level = "medium"

\* the fields of a ScoredInsight other than priority_level (and the identity
\* of the object)
Unleveled(s) == [f \in DOMAIN s \ {"priority_level", "oid"} |-> s[f]]

\* the ScoredInsight objects of the run, as _score_insight created them
Created ==
    LET all_insights == collect_insights(ResultOf(analyzer_results, "cost_analyzer"),
                                         ResultOf(analyzer_results, "equipment_predictor"),
                                         ResultOf(analyzer_results, "quality_analyzer"),
                                         ResultOf(analyzer_results, "efficiency_analyzer"))
    IN  [i \in 1..Len(all_insights) |-> score_insight(all_insights[i])]

\* C27: once _score_insight has created a ScoredInsight, the only field any
\* later stage of the run changes is priority_level, set during bucketing:
\* source_analyzer, insight_type, insight_data, financial_impact, the deviation,
\* urgency and confidence scores and priority_score are the same after
\* bucketing, after investigation grouping and after feed formatting.
C27_OnlyPriorityLevelChanges ==
    \A b \in BucketNames : \A k \in 1..Len(prioritized[b]) :
        LET s == prioritized[b][k]
        IN  /\ Unleveled(s) = Unleveled(Created[s.oid])
            /\ s.priority_level = b

\* C27 witness: a finished run with urgent and notable insights and an
\* investigation built from them
C27_Witness ==
    /\ FeedFormatted
    /\ Len(prioritized.notable) > 0
    /\ investigations # <<>>
    /\ Len(feed.notable) = Len(prioritized.notable)

\* C29: the priority of an Investigation is 'URGENT' whenever at least one of
\* its member Insights was placed in the urgent tier, and 'NOTABLE' only when
\* none of its members is urgent.
C29_InvestigationPriority ==
    \A n \in 1..Len(investigations) :
        LET inv == investigations[n]
            urgent_member == \E m \in 1..Len(inv.members) :
                                \E k \in 1..Len(prioritized.urgent) :
                                    prioritized.urgent[k].oid = inv.members[m]
        IN  inv.priority = IF urgent_member THEN "URGENT" ELSE "NOTABLE"

\* C28: analyze never raises to its caller: for any headers, any batch and any
\* failure of a collaborator, the run ends with a returned result whose
\* 'success' is either true (carrying insights, investigations and
\* analyzer_details) or false (carrying error and metadata, and no insights).
C28_AnalyzeAlwaysReturns ==
    Done =>
        /\ Len(result) = 1
        /\ result[1].success =>
              {"insights", "investigations", "analyzer_details"} \subseteq DOMAIN result[1]
        /\ ~result[1].success =>
              /\ {"error", "metadata"} \subseteq DOMAIN result[1]
              /\ "insights" \notin DOMAIN result[1]

\* C28 witness: a run called with no headers, whose tier detection raised, has
\* returned the failure result
C28_Witness ==
    /\ Done
    /\ csv_headers.none
    /\ "tier" \in faults
    /\ result # <<>>
    /\ ~result[1].success
    /\ result[1].metadata.facility_id = RunFacility

\* the group of a stored baseline has a valid sample among the rows
HasValidSample(key, rows) ==
    \E i \in 1..Len(rows) :
        LET wo == rows[i]
        IN  CASE key[2] = "material_cost" -> MaterialValid(wo) /\ MaterialKey(wo) = key[3]
              [] key[2] = "labor_hours" -> LaborValid(wo) /\ LaborKey(wo) = key[3]
              [] key[2] = "scrap_rate" -> ScrapValid(wo) /\ ScrapKey(wo) = key[3]
              [] key[2] = "equipment_cycle_time" ->
                     EquipmentValid(wo) /\ EquipmentKey(wo) = key[3]
              [] OTHER -> FALSE

\* the group of a stored baseline has a valid sample in the current window of
\* its facility
InCurrentWindow(key) == HasValidSample(key, WindowRows(work_orders, key[1]))

\* C30: update_baselines only upserts and never deletes: across any sequence of
\* refreshes, uploads and days passing, no step removes a stored baseline, and a
\* step changes a stored baseline (rolling_avg, rolling_std, sample_count or
\* last_updated) only if its group has a valid sample in the current 30-day
\* window of its facility; so a baseline whose group has left the window, and
\* every baseline of a facility that is not being refreshed, stays as it is.
C30_UpsertOnly ==
    [][\A key \in DOMAIN facility_baselines :
          /\ key \in DOMAIN facility_baselines'
          /\ facility_baselines'[key] # facility_baselines[key] =>
                /\ InCurrentWindow(key)
                /\ updates' # <<>>
                /\ updates'[1].window # <<>>
                /\ updates'[1].window[1].facility_id = key[1]]_vars

\* C30 witness: after a successful refresh of facility 1 that wrote at least one
\* baseline, a baseline of that facility written by an earlier refresh is still
\* stored although its group had no valid sample in the window of that refresh
\* and has none now
C30_Witness ==
    /\ updates # <<>>
    /\ updates[1].read_ok
    /\ updates[1].window # <<>>
    /\ updates[1].window[1].facility_id = RunFacility
    /\ \E key \in DOMAIN facility_baselines : facility_baselines[key].last_updated = clock
    /\ \E key \in DOMAIN facility_baselines :
          /\ key[1] = RunFacility
          /\ ~InCurrentWindow(key)
          /\ ~HasValidSample(key, updates[1].window)
          /\ facility_baselines[key].last_updated < clock

====
